---- MODULE Spec2Model ----
(***************************************************************************)
(* Train scheduling core of SIHMain2025: the greedy constructive scheduler *)
(* (src/core/greedy_scheduler.py), the solver dispatcher                   *)
(* (src/core/solver.py), the single-section MILP                           *)
(* (src/core/milp_scheduler.py), the KPIs (src/sim/simulator.py) and the   *)
(* endpoints /schedule, /resolve and /adjust (src/api.py), applied to      *)
(* bounded scenarios.                                                      *)
(*                                                                         *)
(* A section is a record [id, headway_seconds, traverse_seconds,           *)
(* block_windows, platform_capacity, conflicts_with, conflict_groups].     *)
(* block_windows is a sequence of pairs <<b0, b1>> (None and [] are both   *)
(* the empty sequence, as in `sec.block_windows or []`).                   *)
(* platform_capacity 0 stands for None (the code tests `cap and cap >= 1`).*)
(* The dict fields are functions whose DOMAIN is the set of keys; the      *)
(* empty function <<>> stands for None and for {}.                         *)
(* A train is a record [id, priority, route_sections, planned_departure,   *)
(* dwell_before, due_time]; due_time is <<>> for None and <<v>> for v.     *)
(* A schedule item is [train_id, section_id, entry, exit].                 *)
(* status is the outcome of the CBC run of a direct call of the            *)
(* single-section MILP (src/core/milp_scheduler.py).  request, scheduled,  *)
(* kpis and lateness_by_train belong to the endpoints of src/api.py: the   *)
(* query and body of the request, the trains and network handed to the    *)
(* scheduler, and the KPI map and lateness map of the response; <<>> is    *)
(* the value of each before a call.  A float quotient a / b is the record *)
(* [num |-> a, den |-> b].  args, entry, shifts and loop belong to a call   *)
(* of _find_earliest, args and conflicts to a call of                      *)
(* detect_future_conflicts (src/ai_core/predictive_engine).                *)
(***************************************************************************)
EXTENDS Integers, Sequences, FiniteSets, TLC

VARIABLES trains, network, pc, solver, result, raised, milp_exc, milp_ran,
          status, request, scheduled, kpis, lateness_by_train,
          args, candidate, shift_count, loop, detected

vars == <<trains, network, pc, solver, result, raised, milp_exc, milp_ran,
          status, request, scheduled, kpis, lateness_by_train,
          args, candidate, shift_count, loop, detected>>

\* what a direct call of a helper function uses: its arguments, the candidate
\* entry, the number of shifts and the loop counters of _find_earliest, the
\* records of detect_future_conflicts
auxVars == <<args, candidate, shift_count, loop, detected>>

\* what an endpoint of api.py adds to a call of the scheduler
apiVars == <<request, scheduled, kpis, lateness_by_train>>

\* ------------------------------------------------------------------ bounds
MaxTrains == 3
MaxPriority == 2
MaxDeparture == 1
MaxHeadway == 1
MaxTraverse == 2
MaxBlockEnd == 4
MaxDwell == 2
MaxCapacity == 2
MaxClearance == 2
MaxDue == 5

\* ----------------------------------------------------------------- helpers
Max(a, b) == IF a >= b THEN a ELSE b

Abs(a) == IF a >= 0 THEN a ELSE 0 - a

\* dict.get(key, 0)
DictGet(d, key) == IF key \in DOMAIN d THEN d[key] ELSE 0

\* the values of a dict
Values(d) == {d[k] : k \in DOMAIN d}

\* sorted(items, key=entry)
EntryRank(items, i) ==
    1 + Cardinality({j \in 1..Len(items) :
                        \/ items[j].entry < items[i].entry
                        \/ items[j].entry = items[i].entry /\ j < i})

SortedByEntry(items) ==
    [r \in 1..Len(items) |->
        items[CHOOSE i \in 1..Len(items) : EntryRank(items, i) = r]]

\* ------------------------------------------------------------ domain model
Section(id, H, D, blocks, cap, cw, cg) ==
    [id |-> id, headway_seconds |-> H, traverse_seconds |-> D,
     block_windows |-> blocks, platform_capacity |-> cap,
     conflicts_with |-> cw, conflict_groups |-> cg]

TrainRequest(id, prio, route, dep, dwell, due) ==
    [id |-> id, priority |-> prio, route_sections |-> route,
     planned_departure |-> dep, dwell_before |-> dwell, due_time |-> due]

ScheduleItem(tid, sid, entry, exit) ==
    [train_id |-> tid, section_id |-> sid, entry |-> entry, exit |-> exit]

\* the section ids of the scenarios, in the order of their strings
SectionIds == <<"S1", "S2">>

\* NetworkModel.section_by_id raises KeyError when no section has the id
HasSection(net, sid) == \E i \in 1..Len(net) : net[i].id = sid

\* NetworkModel.section_by_id: the first section with the id
section_by_id(net, sid) ==
    net[CHOOSE i \in 1..Len(net) :
            /\ net[i].id = sid
            /\ \A j \in 1..(i - 1) : net[j].id # sid]

\* -------------------------------------------------- greedy: _find_earliest
\* line 49: the candidate [entry, entry+traverse) meets the window [b0, b1)
HitsBlockClosed(entry, traverse, w) ==
    ~(entry + traverse < w[1] \/ entry > w[2])

HitsBlock(entry, traverse, w) == ~(entry + traverse <= w[1] \/ entry >= w[2])

\* line 50: the candidate jumps to the end of the window
BlockJumpBefore(w, traverse) == w[1] - traverse

BlockJump(w, traverse) == w[2]

\* lines 48-51: one pass of the for loop over the block windows
RECURSIVE BlockPass(_, _, _, _, _, _)
BlockPass(entry, traverse, blocks, j, moved, shifts) ==
    IF j > Len(blocks)
    THEN [entry |-> entry, moved |-> moved, shifts |-> shifts]
    ELSE IF HitsBlock(entry, traverse, blocks[j])
         THEN BlockPass(BlockJump(blocks[j], traverse), traverse, blocks,
                        j + 1, TRUE, shifts + 1)
         ELSE BlockPass(entry, traverse, blocks, j + 1, moved, shifts)

\* line 60: the candidate keeps the headway on both sides of a stored item
ClearsNoHeadway(entry, headway, traverse, cur) ==
    entry + traverse <= cur.entry \/ entry >= cur.exit

Clears(entry, headway, traverse, cur) ==
    entry + traverse + headway <= cur.entry \/ entry >= cur.exit + headway

\* lines 55-64: the scan of the stored items, restarted after each shift
RECURSIVE OccScan(_, _, _, _, _, _)
OccScan(entry, headway, traverse, occ, i, shifts) ==
    IF i > Len(occ)
    THEN [entry |-> entry, shifts |-> shifts]
    ELSE IF ~Clears(entry, headway, traverse, occ[i])
         THEN OccScan(Max(occ[i].exit + headway, occ[i].exit + headway),
                      headway, traverse, occ, 1, shifts + 1)
         ELSE OccScan(entry, headway, traverse, occ, i + 1, shifts)

\* lines 44-66: the while True loop; a block pass that moved the candidate
\* is repeated, otherwise the stored items are scanned and the loop ends
RECURSIVE FindLoop(_, _, _, _, _, _)
FindLoop(entry, headway, traverse, occ, blocks, shifts) ==
    LET bp == BlockPass(entry, traverse, blocks, 1, FALSE, shifts)
    IN  IF bp.moved
        THEN FindLoop(bp.entry, headway, traverse, occ, blocks, bp.shifts)
        ELSE OccScan(bp.entry, headway, traverse, occ, 1, bp.shifts)

_find_earliest(start, headway, traverse, occ, blocks) ==
    FindLoop(start, headway, traverse, occ, blocks, 0).entry

\* ------------------------------------------------ greedy: _insert_occupancy
RECURSIVE InsertIndex(_, _, _)
InsertIndex(occ, item, idx) ==
    IF idx <= Len(occ) /\ occ[idx].entry <= item.entry
    THEN InsertIndex(occ, item, idx + 1)
    ELSE idx

_insert_occupancyLast(occ, item) == <<item>>

_insert_occupancy(occ, item) ==
    LET idx == InsertIndex(occ, item, 1)
    IN  SubSeq(occ, 1, idx - 1) \o <<item>> \o SubSeq(occ, idx, Len(occ))

\* --------------------------------------------------- greedy: schedule_trains
\* line 15: sorted(trains, key=(-priority, planned_departure)), a stable sort
KeyLessAscending(t, u) ==
    \/ t.priority < u.priority
    \/ t.priority = u.priority /\ t.planned_departure < u.planned_departure

KeyLess(t, u) ==
    \/ t.priority > u.priority
    \/ t.priority = u.priority /\ t.planned_departure < u.planned_departure

SortRank(ts, i) ==
    1 + Cardinality({j \in 1..Len(ts) :
                        \/ KeyLess(ts[j], ts[i])
                        \/ ~KeyLess(ts[i], ts[j]) /\ j < i})

trains_sorted(ts) ==
    [r \in 1..Len(ts) |-> ts[CHOOSE i \in 1..Len(ts) : SortRank(ts, i) = r]]

\* line 26: the start candidate of a leg
EntryCandidateDeparture(prev_exit, t) == t.planned_departure

EntryCandidate(prev_exit, t) == Max(prev_exit, t.planned_departure)

\* line 28: exit_time
ExitTimeWithHeadway(entry, sec) == entry + sec.traverse_seconds + sec.headway_seconds

ExitTime(entry, sec) == entry + sec.traverse_seconds

\* line 34: prev_exit for the next leg
NextPrevExitWithPlatform(exit_time, sec) ==
    exit_time + sec.headway_seconds + sec.platform_capacity

NextPrevExit(exit_time, sec) == exit_time + sec.headway_seconds

\* lines 20-34: the legs of one train from route position k on.
\* st = [occupancy, result, raised]
RECURSIVE PlaceLegs(_, _, _, _, _)
PlaceLegs(t, k, prev_exit, net, st) ==
    IF k > Len(t.route_sections)
    THEN st
    ELSE LET sid == t.route_sections[k]
         IN  IF ~HasSection(net, sid)
             THEN [st EXCEPT !.raised = "KeyError"]
             ELSE LET sec == section_by_id(net, sid)
                      start == EntryCandidate(prev_exit, t)
                      entry == _find_earliest(start, sec.headway_seconds,
                                   sec.traverse_seconds, st.occupancy[sid],
                                   sec.block_windows)
                      exit_time == ExitTime(entry, sec)
                      item == ScheduleItem(t.id, sid, entry, exit_time)
                  IN  PlaceLegs(t, k + 1, NextPrevExit(exit_time, sec), net,
                          [st EXCEPT
                             !.occupancy[sid] = _insert_occupancy(@, item),
                             !.result = Append(@, item)])

\* lines 17-34: the loop over the sorted trains
RECURSIVE PlaceTrains(_, _, _, _)
PlaceTrains(ts, i, net, st) ==
    IF i > Len(ts) \/ st.raised # "none"
    THEN st
    ELSE PlaceTrains(ts, i + 1, net,
             PlaceLegs(ts[i], 1, ts[i].planned_departure, net, st))

\* greedy_scheduler.schedule_trains: [items, raised]
greedy_schedule(ts, net) ==
    LET st0 == [occupancy |-> [sid \in {net[i].id : i \in 1..Len(net)} |-> <<>>],
                result |-> <<>>, raised |-> "none"]
        st == PlaceTrains(trains_sorted(ts), 1, net, st0)
    IN  IF st.raised # "none"
        THEN [items |-> <<>>, raised |-> st.raised]
        ELSE [items |-> st.result, raised |-> "none"]

\* ------------------------------------------------ solver.py: schedule_trains
\* milp_scheduler.py line 121: the parameters of schedule_trains_milp
MilpParameters == {"network", "trains"}

\* solver.py line 11: the keyword arguments of the call in the try block
MilpCallKeywords == {"time_limit"}

\* The exception classes that `except Exception` (line 12) catches
ExceptionSubclasses == {"TypeError", "KeyError", "ValueError"}

\* solver.py line 11: binding the arguments of the call.  A keyword that is
\* not a parameter raises TypeError before the callee's body runs.
MilpCallBinding ==
    IF MilpCallKeywords \subseteq MilpParameters THEN "bound" ELSE "TypeError"

\* lines 12-14: the handler returns what the greedy scheduler returns (or
\* raises what it raises)
ExceptHandlerReraise(exc, ts, net) ==
    [items |-> <<>>, raised |-> exc, milp_exc |-> exc, milp_ran |-> FALSE]

ExceptHandlerUnsorted(exc, ts, net) ==
    LET st0 == [occupancy |-> [sid \in {net[i].id : i \in 1..Len(net)} |-> <<>>],
                result |-> <<>>, raised |-> "none"]
        st == PlaceTrains(ts, 1, net, st0)
    IN  [items |-> IF st.raised # "none" THEN <<>> ELSE st.result,
         raised |-> st.raised, milp_exc |-> exc, milp_ran |-> FALSE]

ExceptHandler(exc, ts, net) ==
    LET g == greedy_schedule(ts, net)
    IN  [items |-> g.items, raised |-> g.raised, milp_exc |-> exc,
         milp_ran |-> FALSE]

\* lines 8-15.  From this call site the body of schedule_trains_milp is never
\* entered: the try block ends in the TypeError of the argument binding.
schedule_trains(ts, net, s) ==
    IF s = "milp"
    THEN CASE MilpCallBinding \in ExceptionSubclasses ->
                  ExceptHandler(MilpCallBinding, ts, net)
    ELSE LET g == greedy_schedule(ts, net)
         IN  [items |-> g.items, raised |-> g.raised, milp_exc |-> "none",
              milp_ran |-> FALSE]

\* ------------------------- milp_scheduler: schedule_trains_single_section_milp
\* The start variables s are continuous, but every constraint is a bound or
\* a difference of two variables with integer data, so the vertices of the
\* feasible region are integral: a solution is a function from the positions
\* of the trains to integer start times.

\* line 31: the slack added to the horizon estimate
BigMSlack == 1000

RECURSIVE LatestDeparture(_, _)
LatestDeparture(ts, i) ==
    IF i = Len(ts)
    THEN ts[i].planned_departure
    ELSE Max(ts[i].planned_departure, LatestDeparture(ts, i + 1))

\* lines 30-31
BigM(ts, sec) ==
    LatestDeparture(ts, 1)
        + Len(ts) * (sec.traverse_seconds + sec.headway_seconds) + BigMSlack

\* lines 40-41 for one value y of the order binary
Disjunctive(si, sj, sec, M, y) ==
    /\ sj >= si + sec.traverse_seconds + sec.headway_seconds - M * (1 - y)
    /\ si >= sj + sec.traverse_seconds + sec.headway_seconds - M * y

\* lines 46-51: the trains with a positive dwell before the section
DwellList(ts, sec) ==
    {i \in 1..Len(ts) : DictGet(ts[i].dwell_before, sec.id) > 0}

\* lines 58-59 (76-77 with slack 0) for one value p of the platform binary
PlatformPair(si, sj, di, dj, M, p, slack) ==
    /\ si <= sj - dj + M * (1 - p) + slack
    /\ sj <= si - di + M * p + slack

\* lines 44-77: cap = 1 orders the dwells pairwise; cap > 1 assigns each
\* dwelling train one platform a[i] and orders the dwells of a platform
PlatformConstraints(ts, sec, st, M) ==
    LET cap == sec.platform_capacity
        dl == DwellList(ts, sec)
        dv(i) == DictGet(ts[i].dwell_before, sec.id)
    IN  IF cap >= 1
        THEN IF cap = 1
             THEN \A i \in dl : \A j \in dl :
                      i < j => \E p \in {0, 1} :
                          PlatformPair(st[i], st[j], dv(i), dv(j), M, p, 0)
             ELSE \E a \in [dl -> 0..(cap - 1)] :
                      \A i \in dl : \A j \in dl : \A pidx \in 0..(cap - 1) :
                          i < j => \E z \in {0, 1} :
                              PlatformPair(st[i], st[j], dv(i), dv(j), M, z,
                                  M * (2 - (IF a[i] = pidx THEN 1 ELSE 0)
                                         - (IF a[j] = pidx THEN 1 ELSE 0)))
        ELSE TRUE

\* lines 85-86 for one value z of the window binary
WindowPair(si, sec, w, M, z) ==
    /\ si + sec.traverse_seconds <= w[1] + M * z
    /\ si >= w[2] - M * (1 - z)

\* lines 20-86: st satisfies every constraint for some value of the binaries
Feasible(ts, sec, st) ==
    LET M == BigM(ts, sec)
    IN  /\ \A i \in 1..Len(ts) : st[i] >= ts[i].planned_departure
        /\ \A i \in 1..Len(ts) : \A j \in 1..Len(ts) :
               i < j => \E y \in {0, 1} : Disjunctive(st[i], st[j], sec, M, y)
        /\ PlatformConstraints(ts, sec, st, M)
        /\ \A i \in 1..Len(ts) : \A w \in 1..Len(sec.block_windows) :
               \E z \in {0, 1} : WindowPair(st[i], sec, sec.block_windows[w], M, z)

RECURSIVE SumOver(_, _, _)
SumOver(f(_), i, n) == IF i > n THEN 0 ELSE f(i) + SumOver(f, i + 1, n)

RECURSIVE ProductOver(_, _, _)
ProductOver(f(_), i, n) == IF i > n THEN 1 ELSE f(i) * ProductOver(f, i + 1, n)

\* lines 89-105: the objective, multiplied by 1000 times the product of the
\* positive due times so that it is an integer.  With a due time the cost is
\* sum(priority * L) + 1e-3 * sum(s / due), where L = max(0, s - due) at the
\* optimum; without any due time it is sum(priority * s).
Objective(ts, st) ==
    LET n == Len(ts)
        posdue(i) == ts[i].due_time # <<>> /\ ts[i].due_time[1] > 0
        P == ProductOver(LAMBDA i : IF posdue(i) THEN ts[i].due_time[1] ELSE 1,
                         1, n)
        late(i) == IF ts[i].due_time # <<>>
                   THEN ts[i].priority * Max(0, st[i] - ts[i].due_time[1])
                   ELSE 0
        eps(i) == IF posdue(i) THEN st[i] * (P \div ts[i].due_time[1]) ELSE 0
    IN  IF \E i \in 1..n : ts[i].due_time # <<>>
        THEN 1000 * P * SumOver(late, 1, n) + SumOver(eps, 1, n)
        ELSE SumOver(LAMBDA i : ts[i].priority * st[i], 1, n)

\* the start times a vertex can take: a lower bound (a planned departure or
\* the end of a block window) plus steps of traverse + headway and dwells
StartValues(ts, sec) ==
    LET n == Len(ts)
        span == n * (sec.traverse_seconds + sec.headway_seconds)
                    + SumOver(LAMBDA i : DictGet(ts[i].dwell_before, sec.id), 1, n)
        anchors == {ts[i].planned_departure : i \in 1..n}
                       \cup {sec.block_windows[w][2] :
                                w \in 1..Len(sec.block_windows)}
    IN  UNION {a..(a + span) : a \in anchors}

\* the least element of a non-empty set of integers
Least(S) == CHOOSE c \in S : \A d \in S : c <= d

\* the greatest element of a non-empty set of integers
Greatest(S) == CHOOSE c \in S : \A d \in S : c >= d

\* line 108: the solutions CBC can report as optimal
OptimalSolutions(ts, sec) ==
    LET feas == {st \in [1..Len(ts) -> StartValues(ts, sec)] :
                    Feasible(ts, sec, st)}
    IN  IF feas = {}
        THEN {}
        ELSE LET best == Least({Objective(ts, st) : st \in feas})
             IN  {st \in feas : Objective(ts, st) = best}

\* line 113: int(pulp.value(s)) of an unset variable is int(None)
StartsUnsorted(ts, sec, st) ==
    [i \in 1..Len(ts) |->
        ScheduleItem(ts[i].id, sec.id, st[i], st[i] + sec.traverse_seconds)]

\* lines 111-118: the items are built from the variables whatever the status
\* of the run; st = <<>> stands for variables without a value
BuildItems(ts, sec, st) ==
    IF st = <<>>
    THEN [items |-> <<>>, raised |-> "TypeError"]
    ELSE [items |-> SortedByEntry(StartsUnsorted(ts, sec, st)), raised |-> "none"]

\* what CBC can leave in the start variables of a model it did not solve:
\* nothing, or values that violate a constraint
Leftovers(ts, sec) ==
    {<<>>} \cup [1..Len(ts) -> {0} \cup {ts[i].planned_departure : i \in 1..Len(ts)}]

\* ---------------- milp_scheduler: the formulations over routes of several legs
\* A leg is a train position ti, a route position k and the section id at
\* that position; the start variable s[(ti, k)] of the code is the value of a
\* solution st at the leg's index in Legs(ts).
RECURSIVE LegsOfTrain(_, _, _)
LegsOfTrain(ts, ti, k) ==
    IF k > Len(ts[ti].route_sections)
    THEN <<>>
    ELSE <<[ti |-> ti, k |-> k, sid |-> ts[ti].route_sections[k]]>>
             \o LegsOfTrain(ts, ti, k + 1)

RECURSIVE LegsFrom(_, _)
LegsFrom(ts, ti) ==
    IF ti > Len(ts) THEN <<>> ELSE LegsOfTrain(ts, ti, 1) \o LegsFrom(ts, ti + 1)

\* lines 145-148, 265-270
Legs(ts) == LegsFrom(ts, 1)

\* the index of the last leg of train ti
LastLeg(legs, ti) ==
    CHOOSE x \in 1..Len(legs) :
        /\ legs[x].ti = ti
        /\ \A z \in 1..Len(legs) : legs[z].ti = ti => legs[z].k <= legs[x].k

\* lines 147-148, 268-269: lowBound
LowerBound(ts, leg) ==
    IF leg.k = 1 THEN ts[leg.ti].planned_departure ELSE 0

\* lines 151-158, 273-280: a leg starts after the leg before it, the traverse
\* of that leg's section and the dwell before its own section
Precedence(ts, net, legs, st) ==
    \A x \in 1..Len(legs) :
        legs[x].k > 1 =>
            st[x] >= st[x - 1]
                     + section_by_id(net, legs[x - 1].sid).traverse_seconds
                     + DictGet(ts[legs[x].ti].dwell_before, legs[x].sid)

\* lines 174-175, 299-300: the legs of a group keep traverse + headway apart
GroupDisjunctive(sec, group, st, M) ==
    \A a \in group : \A b \in group :
        a < b => \E y \in {0, 1} : Disjunctive(st[a], st[b], sec, M, y)

\* lines 178-208, 302-333: the platform constraints over the legs of a group
GroupPlatform(ts, legs, sec, group, st, M) ==
    LET cap == sec.platform_capacity
        dv(x) == DictGet(ts[legs[x].ti].dwell_before, sec.id)
        dl == {x \in group : dv(x) > 0}
    IN  IF cap >= 1
        THEN IF cap = 1
             THEN \A a \in dl : \A b \in dl :
                      a < b => \E p \in {0, 1} :
                          PlatformPair(st[a], st[b], dv(a), dv(b), M, p, 0)
             ELSE \E asg \in [dl -> 0..(cap - 1)] :
                      \A a \in dl : \A b \in dl : \A pidx \in 0..(cap - 1) :
                          a < b => \E z \in {0, 1} :
                              PlatformPair(st[a], st[b], dv(a), dv(b), M, z,
                                  M * (2 - (IF asg[a] = pidx THEN 1 ELSE 0)
                                         - (IF asg[b] = pidx THEN 1 ELSE 0)))
        ELSE TRUE

\* lines 211-216, 335-340
GroupWindows(sec, group, st, M) ==
    \A x \in group : \A w \in 1..Len(sec.block_windows) :
        \E z \in {0, 1} : WindowPair(st[x], sec, sec.block_windows[w], M, z)

\* lines 218-233, 374-393: the objective over the last legs
RouteObjective(ts, legs, st) ==
    Objective(ts, [ti \in 1..Len(ts) |-> st[LastLeg(legs, ti)]])

\* the values a start variable can take at a vertex: from 0 to the latest
\* lower bound plus every gap a constraint can ask for
LegValues(ts, net, legs, with_clearances) ==
    LET secs == {section_by_id(net, legs[x].sid) : x \in 1..Len(legs)}
        ends == {0} \cup {ts[i].planned_departure : i \in 1..Len(ts)}
                    \cup UNION {{sec.block_windows[w][2] :
                                    w \in 1..Len(sec.block_windows)} :
                                sec \in secs}
        clears == IF with_clearances
                  THEN {0} \cup UNION {Values(sec.conflicts_with)
                                           \cup Values(sec.conflict_groups) :
                                       sec \in secs}
                  ELSE {0}
        gap(x) == section_by_id(net, legs[x].sid).traverse_seconds
                      + section_by_id(net, legs[x].sid).headway_seconds
                      + DictGet(ts[legs[x].ti].dwell_before, legs[x].sid)
                      + Greatest(clears)
    IN  0..(Greatest(ends) + SumOver(gap, 1, Len(legs)))

\* the solutions CBC can report as optimal for a feasible set feas
OptimalAmong(ts, legs, feas) ==
    IF feas = {}
    THEN {}
    ELSE LET best == Least({RouteObjective(ts, legs, st) : st \in feas})
         IN  {st \in feas : RouteObjective(ts, legs, st) = best}

\* lines 245, 405: sort(key=(section_id, entry)), a stable sort
SectionRank(sid) == CHOOSE i \in 1..Len(SectionIds) : SectionIds[i] = sid

SectionEntryLess(a, b) ==
    \/ SectionRank(a.section_id) < SectionRank(b.section_id)
    \/ a.section_id = b.section_id /\ a.entry < b.entry

SortedBySectionEntry(items) ==
    LET rank(i) == 1 + Cardinality({j \in 1..Len(items) :
                           \/ SectionEntryLess(items[j], items[i])
                           \/ ~SectionEntryLess(items[i], items[j]) /\ j < i})
    IN  [r \in 1..Len(items) |->
            items[CHOOSE i \in 1..Len(items) : rank(i) = r]]

\* lines 238-246, 398-406; st = <<>> stands for variables without a value
BuildLegItems(net, ts, legs, st) ==
    IF st = <<>> /\ legs # <<>>
    THEN [items |-> <<>>, raised |-> "TypeError"]
    ELSE [items |-> SortedBySectionEntry(
                        [x \in 1..Len(legs) |->
                            ScheduleItem(ts[legs[x].ti].id, legs[x].sid, st[x],
                                st[x] + section_by_id(net, legs[x].sid)
                                            .traverse_seconds)]),
          raised |-> "none"]

\* what CBC can leave in the variables of a model it did not solve
LegLeftovers(ts, legs) ==
    {<<>>, [x \in 1..Len(legs) |-> LowerBound(ts, legs[x])]}

\* ----------------------- milp_scheduler: schedule_trains_multi_section_milp
\* line 165: the slack added to the horizon estimate
MultiBigMSlack == 1000

\* lines 163-165; sids is the shared route
MultiBigM(ts, net, sids) ==
    LatestDeparture(ts, 1)
        + Len(ts) * SumOver(LAMBDA k :
                                section_by_id(net, sids[k]).traverse_seconds
                                + section_by_id(net, sids[k]).headway_seconds,
                            1, Len(sids))
        + MultiBigMSlack

\* lines 170-172 and 188, 202: `y` is the dict of the order binaries, and
\* the loops `for y in range(x + 1, len(dwell_idx))` of the platform
\* constraints bind the same name to an int as soon as two trains dwell
\* before a section with platform_capacity >= 1
YRebound(ts, net, sids, k) ==
    /\ section_by_id(net, sids[k]).platform_capacity >= 1
    /\ Cardinality({i \in 1..Len(ts) :
                       DictGet(ts[i].dwell_before, sids[k]) > 0}) >= 2

\* line 172: y[(i, j, k)] = ... at a route position behind one that bound y
\* to an int raises TypeError
MultiSectionRaises(ts, net, sids) ==
    \E k \in 1..(Len(sids) - 1) : Len(ts) >= 2 /\ YRebound(ts, net, sids, k)

\* lines 143-216: st satisfies every constraint for some value of the
\* binaries; the constraints of route position k are over the legs at k
MultiSectionFeasible(ts, net, sids, legs, st) ==
    LET M == MultiBigM(ts, net, sids)
    IN  /\ \A x \in 1..Len(legs) : st[x] >= LowerBound(ts, legs[x])
        /\ Precedence(ts, net, legs, st)
        /\ \A k \in 1..Len(sids) :
               LET sec == section_by_id(net, sids[k])
                   group == {x \in 1..Len(legs) : legs[x].k = k}
               IN  /\ GroupDisjunctive(sec, group, st, M)
                   /\ GroupPlatform(ts, legs, sec, group, st, M)
                   /\ GroupWindows(sec, group, st, M)

MultiSectionOptimal(ts, net, sids) ==
    LET legs == Legs(ts)
    IN  OptimalAmong(ts, legs,
            {st \in [1..Len(legs) -> LegValues(ts, net, legs, FALSE)] :
                MultiSectionFeasible(ts, net, sids, legs, st)})

\* ----------------------- milp_scheduler: schedule_trains_hetero_routes_milp
\* line 286: the slack, and the horizon of a network without durations
HeteroBigMSlack == 1000

HeteroEmptySpan == 1000

\* lines 264-266, 284-286
HeteroBigM(ts, net, legs) ==
    LET secs == {section_by_id(net, legs[x].sid) : x \in 1..Len(legs)}
        sum_DH == LET RECURSIVE S(_)
                      S(X) == IF X = {} THEN 0
                              ELSE LET c == CHOOSE c \in X : TRUE
                                   IN  c.traverse_seconds + c.headway_seconds
                                           + S(X \ {c})
                  IN  S(secs)
    IN  Max(0, LatestDeparture(ts, 1))
            + Len(ts) * (IF sum_DH > 0 THEN sum_DH ELSE HeteroEmptySpan)
            + HeteroBigMSlack

\* lines 351-352, 371-372 for one value y of the order binary
ClearancePair(si, sj, clearance, M, y) ==
    /\ sj >= si + clearance - M * (1 - y)
    /\ si >= sj + clearance - M * y

\* lines 343-352: every leg on sec and every leg on a section it declares a
\* conflict with, when that section carries legs
ConflictsWith(sec, legs, st, M) ==
    \A other \in DOMAIN sec.conflicts_with :
        \A a \in 1..Len(legs) : \A b \in 1..Len(legs) :
            (legs[a].sid = sec.id /\ legs[b].sid = other) =>
                \E y \in {0, 1} :
                    ClearancePair(st[a], st[b], sec.conflicts_with[other], M, y)

\* line 367: max(int(groups[g]) for g in shared_keys), over the groups of
\* the section whose constraints are being built
GroupClearance(sec, other_sec) ==
    Greatest({sec.conflict_groups[g] :
                 g \in DOMAIN sec.conflict_groups
                           \cap DOMAIN other_sec.conflict_groups})

\* lines 356-372: every leg on sec and every leg on another section that
\* shares a conflict group with it
ConflictGroupsOnce(net, sec, legs, st, M) ==
    \A b \in 1..Len(legs) :
        LET other_sec == section_by_id(net, legs[b].sid)
        IN  (/\ SectionRank(sec.id) < SectionRank(other_sec.id)
             /\ DOMAIN sec.conflict_groups
                    \cap DOMAIN other_sec.conflict_groups # {}) =>
                \A a \in 1..Len(legs) :
                    legs[a].sid = sec.id =>
                        \E y \in {0, 1} :
                            ClearancePair(st[a], st[b],
                                GroupClearance(sec, other_sec), M, y)

ConflictGroups(net, sec, legs, st, M) ==
    \A b \in 1..Len(legs) :
        LET other_sec == section_by_id(net, legs[b].sid)
        IN  (/\ other_sec.id # sec.id
             /\ DOMAIN sec.conflict_groups
                    \cap DOMAIN other_sec.conflict_groups # {}) =>
                \A a \in 1..Len(legs) :
                    legs[a].sid = sec.id =>
                        \E y \in {0, 1} :
                            ClearancePair(st[a], st[b],
                                GroupClearance(sec, other_sec), M, y)

\* lines 262-372
HeteroFeasible(ts, net, legs, st) ==
    LET M == HeteroBigM(ts, net, legs)
    IN  /\ \A x \in 1..Len(legs) : st[x] >= LowerBound(ts, legs[x])
        /\ Precedence(ts, net, legs, st)
        /\ \A sid \in {legs[x].sid : x \in 1..Len(legs)} :
               LET sec == section_by_id(net, sid)
                   group == {x \in 1..Len(legs) : legs[x].sid = sid}
               IN  /\ GroupDisjunctive(sec, group, st, M)
                   /\ GroupPlatform(ts, legs, sec, group, st, M)
                   /\ GroupWindows(sec, group, st, M)
                   /\ ConflictsWith(sec, legs, st, M)
                   /\ ConflictGroups(net, sec, legs, st, M)

HeteroOptimal(ts, net) ==
    LET legs == Legs(ts)
    IN  OptimalAmong(ts, legs,
            {st \in [1..Len(legs) -> LegValues(ts, net, legs, TRUE)] :
                HeteroFeasible(ts, net, legs, st)})

\* ------------------------------------- milp_scheduler: schedule_trains_milp
\* lines 123-135: the formulation the dispatch rules select
Formulation(ts) ==
    IF ts = <<>> THEN "no_trains"
    ELSE IF \E i \in 1..Len(ts) : ts[i].route_sections # ts[1].route_sections
         THEN "hetero_routes"
         ELSE IF Len(ts[1].route_sections) = 1 THEN "single_section"
              ELSE "multi_section"

Formulations == {"no_trains", "hetero_routes", "single_section", "multi_section"}

\* section_by_id raises KeyError for a route section the network lacks, and
\* the objective reads the last leg of every train
RoutesResolve(ts, net) ==
    \A i \in 1..Len(ts) :
        /\ ts[i].route_sections # <<>>
        /\ \A k \in 1..Len(ts[i].route_sections) :
               HasSection(net, ts[i].route_sections[k])

\* what the call raises before the solver runs
RaisedBeforeSolve(ts, net) ==
    IF ts = <<>> THEN "none"
    ELSE IF ~RoutesResolve(ts, net) THEN "KeyError"
         ELSE IF Formulation(ts) = "multi_section"
                     /\ MultiSectionRaises(ts, net, ts[1].route_sections)
              THEN "TypeError"
              ELSE "none"

\* the optimal solutions of the selected formulation, as start times of legs
\* (of trains, for the single-section formulation: one leg per train)
DispatchOptimal(ts, net) ==
    CASE Formulation(ts) = "single_section" ->
             OptimalSolutions(ts, section_by_id(net, ts[1].route_sections[1]))
      [] Formulation(ts) = "multi_section" ->
             MultiSectionOptimal(ts, net, ts[1].route_sections)
      [] Formulation(ts) = "hetero_routes" -> HeteroOptimal(ts, net)

\* the items built from the start times st
DispatchItems(ts, net, st) ==
    IF Formulation(ts) = "single_section"
    THEN BuildItems(ts, section_by_id(net, ts[1].route_sections[1]), st)
    ELSE BuildLegItems(net, ts, Legs(ts), st)

\* ------------------------------------------------- sim/simulator.py: KPIs
\* a float quotient a / b, kept exact
Frac(a, b) == [num |-> a, den |-> b]

FracLeq(x, y) == x.num * y.den <= y.num * x.den

FracEq(x, y) == x.num * y.den = y.num * x.den

\* int(x / m) of a float: truncation toward zero
TruncDiv(x, m) == IF x >= 0 THEN x \div m ELSE 0 - ((0 - x) \div m)

Min(a, b) == IF a <= b THEN a ELSE b

\* lines 10-11: min(i.entry for i in items), max(i.exit for i in items)
RECURSIVE MinEntry(_, _)
MinEntry(items, i) ==
    IF i = Len(items)
    THEN items[i].entry
    ELSE Min(items[i].entry, MinEntry(items, i + 1))

RECURSIVE MaxExit(_, _)
MaxExit(items, i) ==
    IF i = Len(items)
    THEN items[i].exit
    ELSE Max(items[i].exit, MaxExit(items, i + 1))

\* line 14
UtilizationUnclamped(total_time, makespan) ==
    IF makespan > 0 THEN TruncDiv(100 * total_time, makespan) ELSE 0

\* line 19
UtilizationNoClamp(utilization) == utilization

UtilizationClamp(utilization) == Min(utilization, 100)

\* lines 6-21
summarize_schedule(items) ==
    IF items = <<>>
    THEN [total_trains |-> 0, makespan |-> 0, utilization |-> 0,
          conflicts |-> 0]
    ELSE LET start == MinEntry(items, 1)
             end == MaxExit(items, 1)
             makespan == end - start
             total_time == SumOver(LAMBDA i : items[i].exit - items[i].entry,
                                   1, Len(items))
             utilization == UtilizationUnclamped(total_time, makespan)
         IN  [total_trains |->
                  Cardinality({items[i].train_id : i \in 1..Len(items)}),
              makespan |-> makespan,
              utilization |-> UtilizationClamp(utilization),
              conflicts |-> 0]

\* line 32 (api.py line 431): the entries of a train on a section, in the
\* order of the items
EntriesOn(items, tid, sid) ==
    LET sel == SelectSeq(items,
                   LAMBDA it : it.train_id = tid /\ it.section_id = sid)
    IN  [k \in 1..Len(sel) |-> sel[k].entry]

\* line 34 (api.py line 433)
LatenessSigned(t, entry) == entry - t.due_time[1]

Lateness(t, entry) == Max(0, entry - t.due_time[1])

\* lines 29-34: the dict lateness_by_train after the trains from position i;
\* a later train with the same id replaces the entry of an earlier one
RECURSIVE LatenessByTrain(_, _, _, _)
LatenessByTrain(items, ts, i, acc) ==
    IF i > Len(ts)
    THEN acc
    ELSE LET t == ts[i]
             entries == IF t.due_time # <<>> /\ t.route_sections # <<>>
                        THEN EntriesOn(items, t.id,
                                 t.route_sections[Len(t.route_sections)])
                        ELSE <<>>
         IN  IF entries # <<>>
             THEN LatenessByTrain(items, ts, i + 1,
                      (t.id :> Lateness(t, entries[1])) @@ acc)
             ELSE LatenessByTrain(items, ts, i + 1, acc)

\* line 40: a lateness counts as on time
OnTimeReversed(v, tol) == v >= tol

OnTime(v, tol) == v <= tol

ZeroLateness ==
    [otp_end |-> Frac(0, 1), avg_lateness |-> Frac(0, 1), total_lateness |-> 0]

\* lines 24-42
lateness_kpis(items, ts, otp_tolerance_s) ==
    IF items = <<>> \/ ts = <<>>
    THEN ZeroLateness
    ELSE LET lbt == LatenessByTrain(items, ts, 1, <<>>)
             ids == DOMAIN lbt
             n == Cardinality(ids)
         IN  IF n = 0
             THEN ZeroLateness
             ELSE LET total == LET RECURSIVE S(_)
                                   S(X) == IF X = {} THEN 0
                                           ELSE LET x == CHOOSE x \in X : TRUE
                                                IN  lbt[x] + S(X \ {x})
                               IN  S(ids)
                      ontime == Cardinality({x \in ids :
                                                OnTime(lbt[x], otp_tolerance_s)})
                  IN  [otp_end |-> Frac(100 * ontime, n),
                       avg_lateness |-> Frac(total, n),
                       total_lateness |-> total]

\* ------------------------- predictive_engine: detect_future_conflicts
\* line 24: two arrivals closer than this are flagged
ConflictWindow == 120

\* line 19: the predicted delays are minutes
SecondsPerMinute == 60

\* lines 18-20: the ETA of a train; a train without a predicted delay has
\* delay 0.  The times are floats with integer values
Eta(t, delays) == t.planned_departure + DictGet(delays, t.id) * SecondsPerMinute

\* lines 13-21: the arrivals on section sid, in the order of the trains
Arrivals(ts, delays, sid) ==
    LET sel == SelectSeq(ts, LAMBDA t : t.route_sections # <<>>
                                        /\ t.route_sections[1] = sid)
    IN  [k \in 1..Len(sel) |-> [train_id |-> sel[k].id,
                                eta |-> Eta(sel[k], delays)]]

\* line 26: sorted(arrivals, key=eta), a stable sort
EtaRankInputOrder(arrivals, i) == i

EtaRank(arrivals, i) ==
    1 + Cardinality({j \in 1..Len(arrivals) :
                        \/ arrivals[j].eta < arrivals[i].eta
                        \/ arrivals[j].eta = arrivals[i].eta /\ j < i})

SortedByEta(arrivals) ==
    [r \in 1..Len(arrivals) |->
        arrivals[CHOOSE i \in 1..Len(arrivals) : EtaRank(arrivals, i) = r]]

\* lines 27-36: the records of the adjacent arrivals from position i on
RECURSIVE AdjacentConflicts(_, _, _)
AdjacentConflicts(sid, arrivals, i) ==
    IF i > Len(arrivals) - 1
    THEN <<>>
    ELSE LET a == arrivals[i]
             b == arrivals[i + 1]
             rest == AdjacentConflicts(sid, arrivals, i + 1)
         IN  IF b.eta - a.eta < ConflictWindow
             THEN <<[section_id |-> sid,
                     trains |-> <<a.train_id, b.train_id>>,
                     etas |-> <<a.eta, b.eta>>,
                     gap_seconds |-> b.eta - a.eta]>> \o rest
             ELSE rest

\* line 25: the keys of by_next_section, in the order of their first train
RECURSIVE NextSections(_, _, _)
NextSections(ts, i, seen) ==
    IF i > Len(ts)
    THEN <<>>
    ELSE IF ts[i].route_sections = <<>> \/ ts[i].route_sections[1] \in seen
         THEN NextSections(ts, i + 1, seen)
         ELSE <<ts[i].route_sections[1]>>
                  \o NextSections(ts, i + 1, seen \cup {ts[i].route_sections[1]})

RECURSIVE ConflictsOfSections(_, _, _, _)
ConflictsOfSections(ts, delays, sids, k) ==
    IF k > Len(sids)
    THEN <<>>
    ELSE AdjacentConflicts(sids[k],
                           SortedByEta(Arrivals(ts, delays, sids[k])), 1)
             \o ConflictsOfSections(ts, delays, sids, k + 1)

\* lines 5-37
detect_future_conflicts(predicted_delays_min, ts) ==
    ConflictsOfSections(ts, predicted_delays_min, NextSections(ts, 1, {}), 1)

\* ----------------------------------------------------------- api.py endpoints
\* round(x, 3) of the quotient a / b >= 0, in thousandths (ties to even)
RoundThousandths(a, b) ==
    LET q == (1000 * a) \div b
        r == (1000 * a) % b
    IN  IF 2 * r < b THEN q
        ELSE IF 2 * r > b THEN q + 1
        ELSE IF q % 2 = 0 THEN q ELSE q + 1

\* lines 420-424 and 435-441 (193-196, 203-209; 235-238, 245-251; 301-304,
\* 311-317): the KPI map of a response
ResponseKpis(items, ts, tol) ==
    LET k == summarize_schedule(items)
        lk == lateness_kpis(items, ts, tol)
        lk0 == lateness_kpis(items, ts, 0)
    IN  [total_trains |-> k.total_trains, makespan |-> k.makespan,
         utilization |-> k.utilization, conflicts |-> k.conflicts,
         otp_end |-> lk.otp_end, avg_lateness |-> lk.avg_lateness,
         total_lateness |-> lk.total_lateness,
         otp0_end |-> lk0.otp_end, otp_tolerance_used |-> tol,
         on_time_percentage |-> lk.otp_end,
         avg_delay_minutes |->
             Frac(RoundThousandths(lk.avg_lateness.num,
                                   60 * lk.avg_lateness.den), 1000)]

\* lines 426-433: t.route_sections[-1] of an empty route raises IndexError
ScheduleLatenessRaises(ts) ==
    \E i \in 1..Len(ts) : ts[i].due_time # <<>> /\ ts[i].route_sections = <<>>

\* a response: the scheduler's items, the KPI map and what was scheduled
Response(items, k, lbt, ts, net, exc) ==
    [items |-> items, kpis |-> k, lateness_by_train |-> lbt,
     scheduled |-> [trains |-> ts, network |-> net], raised |-> exc]

\* lines 170, 277: the response to a state without trains
MissingState(ts, net) ==
    Response(<<>>, [error |-> "missing state"], <<>>, <<>>, <<>>, "none")

\* lines 401-453: POST /schedule
schedule(ts, net, s, tol) ==
    LET r == schedule_trains(ts, net, s)
    IN  IF r.raised # "none"
        THEN Response(<<>>, <<>>, <<>>, ts, net, r.raised)
        ELSE IF ScheduleLatenessRaises(ts)
        THEN Response(<<>>, <<>>, <<>>, ts, net, "IndexError")
        ELSE Response(r.items, ResponseKpis(r.items, ts, tol),
                      LatenessByTrain(r.items, ts, 1, <<>>), ts, net, "none")

\* lines 172-176: the train ids named by the conflict records
InvolvedFirstRecord(conflicts, k) ==
    IF k > Len(conflicts) \/ k > 1
    THEN {}
    ELSE {conflicts[k].trains[j] : j \in 1..Len(conflicts[k].trains)}

RECURSIVE Involved(_, _)
Involved(conflicts, k) ==
    IF k > Len(conflicts)
    THEN {}
    ELSE {conflicts[k].trains[j] : j \in 1..Len(conflicts[k].trains)}
             \cup Involved(conflicts, k + 1)

\* lines 216-219: the sections on the routes of the trains
RouteSections(ts) ==
    UNION {{ts[i].route_sections[k] : k \in 1..Len(ts[i].route_sections)} :
              i \in 1..Len(ts)}

\* lines 151-252: POST /resolve
resolve(ts, net, conflicts, s, tol) ==
    LET involved == Involved(conflicts, 1)
    IN  IF ts = <<>>
        THEN MissingState(ts, net)
        ELSE IF involved = {}
        THEN LET r == schedule_trains(ts, net, s)
             IN  IF r.raised # "none"
                 THEN Response(<<>>,
                          [total_trains |-> 0, otp_tolerance_used |-> tol],
                          <<>>, ts, net, "none")
                 ELSE Response(r.items, ResponseKpis(r.items, ts, tol), <<>>,
                               ts, net, "none")
        ELSE LET trains_in == SelectSeq(ts, LAMBDA t : t.id \in involved)
                 section_ids == RouteSections(trains_in)
                 sections_in == SelectSeq(net, LAMBDA sec : sec.id \in section_ids)
                 r == schedule_trains(trains_in, sections_in, s)
             IN  IF r.raised # "none"
                 THEN Response(<<>>, <<>>, <<>>, trains_in, sections_in, r.raised)
                 ELSE Response(r.items, ResponseKpis(r.items, trains_in, tol),
                               <<>>, trains_in, sections_in, "none")

\* line 284
HoldDepartureReplacing(base, add_seconds) == add_seconds

HoldDeparture(base, add_seconds) == base + add_seconds

\* line 279: by_id holds, for an id, the last train of the state with it
ById(ts, tid) ==
    CHOOSE i \in 1..Len(ts) :
        ts[i].id = tid /\ \A j \in (i + 1)..Len(ts) : ts[j].id # tid

\* lines 280-286: the holds from position k on, applied in order
RECURSIVE ApplyHolds(_, _, _)
ApplyHolds(ts, holds, k) ==
    IF k > Len(holds)
    THEN ts
    ELSE IF \E i \in 1..Len(ts) : ts[i].id = holds[k].train_id
         THEN LET i == ById(ts, holds[k].train_id)
              IN  ApplyHolds(
                      [ts EXCEPT ![i].planned_departure =
                                     HoldDeparture(@, holds[k].add_seconds)],
                      holds, k + 1)
         ELSE ApplyHolds(ts, holds, k + 1)

\* line 274: body.solver or "greedy"
AdjustSolver(s) == IF s = "none" THEN "greedy" ELSE s

\* lines 255-318: POST /adjust
adjustHeldOnly(ts, net, holds, s, tol) ==
    IF ts = <<>>
    THEN MissingState(ts, net)
    ELSE LET held == ApplyHolds(ts, holds, 1)
             named == SelectSeq(held,
                          LAMBDA t : \E k \in 1..Len(holds) :
                                        holds[k].train_id = t.id)
             r == schedule_trains(named, net, AdjustSolver(s))
         IN  IF r.raised # "none"
             THEN Response(<<>>, <<>>, <<>>, held, net, r.raised)
             ELSE Response(r.items, ResponseKpis(r.items, held, tol), <<>>,
                           held, net, "none")

adjust(ts, net, holds, s, tol) ==
    IF ts = <<>>
    THEN MissingState(ts, net)
    ELSE LET held == ApplyHolds(ts, holds, 1)
             r == schedule_trains(held, net, AdjustSolver(s))
         IN  IF r.raised # "none"
             THEN Response(<<>>, <<>>, <<>>, held, net, r.raised)
             ELSE Response(r.items, ResponseKpis(r.items, held, tol), <<>>,
                           held, net, "none")

\* ---------------------------------------------------------------- scenarios
TrainIds == <<"T1", "T2", "T3", "T4", "T5">>

Plain(id, H, D) == Section(id, H, D, <<>>, 0, <<>>, <<>>)

Headways == 0..MaxHeadway

Traverses == 0..MaxTraverse

Departures == 0..MaxDeparture

Priorities == 1..MaxPriority

Windows == {<<a, b>> : a \in 0..MaxBlockEnd, b \in 1..MaxBlockEnd}

BlockLists == {<<>>} \cup {<<w>> : w \in {v \in Windows : v[1] < v[2]}}

Routes1 == {<<"S1">>, <<"S2">>}

Routes2 == {<<"S1", "S2">>, <<"S2", "S1">>}

\* a train without its id: p priority, r route, d departure, w dwell_before
Choices(prios, routes, deps, dwells) ==
    [p : prios, r : routes, d : deps, w : dwells]

MkTrains(cs) ==
    [i \in 1..Len(cs) |->
        TrainRequest(TrainIds[i], cs[i].p, cs[i].r, cs[i].d, cs[i].w, <<>>)]

TrainLists(lo, hi, choices) ==
    {MkTrains(cs) : cs \in UNION {[1..n -> choices] : n \in lo..hi}}

\* the lowest and the highest value of a range
Ends(hi) == {0, hi}

\* the scenario of a call: its trains and its network
Scenario(ts, net) == trains = ts /\ network = net

\* up to MaxTrains trains contending for one section
FamContention ==
    \E ts \in TrainLists(0, MaxTrains,
                  Choices({1, MaxPriority}, {<<"S1">>}, Departures, {<<>>})),
       h \in Headways, d \in Traverses :
        Scenario(ts, <<Plain("S1", h, d)>>)

\* one or two trains on one section with a block window
FamBlocks ==
    \E ts \in TrainLists(1, 2,
                  Choices(Priorities, {<<"S1">>}, Departures, {<<>>})),
       h \in Headways, d \in Traverses, bl \in BlockLists :
        Scenario(ts, <<Section("S1", h, d, bl, 0, <<>>, <<>>)>>)

\* one or two trains on routes over two sections
FamRoutes ==
    \E ts \in TrainLists(1, 2,
                  Choices({1, MaxPriority}, Routes1 \cup Routes2,
                          Ends(MaxDeparture), {<<>>})),
       h1 \in Headways, d1 \in Traverses, h2 \in Headways, d2 \in Traverses :
        Scenario(ts, <<Plain("S1", h1, d1), Plain("S2", h2, d2)>>)

\* one train with a dwell before one section of a two-leg route
DwellMaps == {<<>>} \cup {s :> w : s \in {"S1", "S2"}, w \in 1..MaxDwell}

FamDwell ==
    \E ts \in TrainLists(1, 1, Choices({1}, Routes2, Departures, DwellMaps)),
       h1 \in Headways, d1 \in Traverses, h2 \in Headways, d2 \in Traverses :
        Scenario(ts, <<Plain("S1", h1, d1), Plain("S2", h2, d2)>>)

\* two trains dwelling before a section with platform capacity
FamPlatform ==
    \E ts \in TrainLists(2, 2,
                  Choices({1}, {<<"S1">>}, Departures,
                          {<<>>} \cup {"S1" :> w : w \in 1..MaxDwell})),
       h \in Headways, d \in Traverses, cap \in 0..MaxCapacity :
        Scenario(ts, <<Section("S1", h, d, <<>>, cap, <<>>, <<>>)>>)

\* two single-section trains on sections that declare conflicts
ClearanceMaps(key) == {<<>>} \cup {key :> c : c \in 0..MaxClearance}

FamConflicts ==
    \E ts \in TrainLists(2, 2,
                  Choices({1}, Routes1, Ends(MaxDeparture), {<<>>})),
       d \in Traverses, cw \in ClearanceMaps("S2"),
       cg1 \in ClearanceMaps("G"), cg2 \in ClearanceMaps("G") :
        Scenario(ts, <<Section("S1", 0, d, <<>>, 0, cw, cg1),
                       Section("S2", 0, d, <<>>, 0, <<>>, cg2)>>)

\* a route that names a section the network does not have
FamUnknownSection ==
    \E ts \in TrainLists(1, 2,
                  Choices({1}, {<<"S1">>, <<"S1", "SX">>, <<"SX">>},
                          Ends(MaxDeparture), {<<>>})),
       h \in Headways, d \in Traverses :
        Scenario(ts, <<Plain("S1", h, d)>>)

\* due_time: None or a time
DueTimes == {<<>>} \cup {<<v>> : v \in 0..MaxDue}

\* two trains with due times and one planned departure on one section
FamDue ==
    \E p1 \in {1, MaxPriority}, p2 \in {1, MaxPriority},
       dep \in Ends(MaxDeparture), u1 \in DueTimes, u2 \in DueTimes,
       h \in Ends(MaxHeadway), d \in Traverses :
        Scenario(<<TrainRequest("T1", p1, <<"S1">>, dep, <<>>, u1),
                   TrainRequest("T2", p2, <<"S1">>, dep, <<>>, u2)>>,
                 <<Plain("S1", h, d)>>)

\* tests/test_greedy.py lines 41-46 (Scenario A)
ScenarioATrains ==
    <<TrainRequest("T1", 1, <<"S1">>, 0, <<>>, <<>>),
      TrainRequest("T2", 2, <<"S1">>, 60, <<>>, <<>>)>>

ScenarioANetwork == <<Plain("S1", 120, 100)>>

ScenarioA == Scenario(ScenarioATrains, ScenarioANetwork)

\* tests/test_due_time.py lines 7-12 (Scenario C)
ScenarioCTrains ==
    <<TrainRequest("T1", 3, <<"S1">>, 0, <<>>, <<400>>),
      TrainRequest("T2", 1, <<"S1">>, 0, <<>>, <<200>>)>>

ScenarioCNetwork == <<Plain("S1", 60, 50)>>

ScenarioC == Scenario(ScenarioCTrains, ScenarioCNetwork)

\* tests/test_milp.py lines 13-19
MilpTestTrains ==
    <<TrainRequest("A", 1, <<"S1">>, 0, <<>>, <<>>),
      TrainRequest("B", 3, <<"S1">>, 30, <<>>, <<>>),
      TrainRequest("C", 2, <<"S1">>, 20, <<>>, <<>>)>>

MilpTestNetwork == <<Plain("S1", 60, 90)>>

MilpTest == Scenario(MilpTestTrains, MilpTestNetwork)

\* tests/test_milp_multisec.py lines 7-15
MultisecTestTrains ==
    <<TrainRequest("A", 1, <<"S1", "S2">>, 0, <<>>, <<>>),
      TrainRequest("B", 3, <<"S1", "S2">>, 20, <<>>, <<>>),
      TrainRequest("C", 2, <<"S1", "S2">>, 10, <<>>, <<>>)>>

MultisecTestNetwork == <<Plain("S1", 60, 100), Plain("S2", 60, 80)>>

MultisecTest == Scenario(MultisecTestTrains, MultisecTestNetwork)

\* negative durations and departures (models.py performs no check)
FamNegative ==
    \E ts \in TrainLists(1, 2,
                  Choices({1}, {<<"S1">>}, {0 - 1, 0, MaxDeparture},
                          {<<>>, "S1" :> (0 - 1)})),
       h \in {0 - 1, 0, MaxHeadway}, d \in {0 - 1, 0, MaxTraverse} :
        Scenario(ts, <<Plain("S1", h, d)>>)

\* trains with an empty route
FamEmptyRoute ==
    \E ts \in TrainLists(1, 2,
                  Choices({1, MaxPriority}, {<<>>, <<"S1">>}, Departures,
                          {<<>>})),
       h \in Headways, d \in Traverses :
        Scenario(ts, <<Plain("S1", h, d)>>)

\* two trains with one id, two sections with one id
FamDuplicateIds ==
    \E p1 \in Priorities, p2 \in Priorities,
       dep1 \in Departures, dep2 \in Departures,
       id2 \in {"T1", "T2"}, sid2 \in {"S1", "S2"},
       h1 \in Headways, d1 \in Traverses, h2 \in Headways, d2 \in Traverses :
        Scenario(<<TrainRequest("T1", p1, <<"S1">>, dep1, <<>>, <<>>),
                   TrainRequest(id2, p2, <<"S1">>, dep2, <<>>, <<>>)>>,
                 <<Plain("S1", h1, d1), Plain(sid2, h2, d2)>>)

\* the scenarios of the direct calls of the single-section MILP: one or two
\* trains on one section
MilpChoices(dwells) ==
    Choices({1, MaxPriority}, {<<"S1">>}, Ends(MaxDeparture), dwells)

\* with a block window
FamMilpBlocks ==
    \E ts \in TrainLists(1, 2, MilpChoices({<<>>})),
       h \in Ends(MaxHeadway), d \in {1, MaxTraverse},
       bl \in {<<>>, <<<<0, 1>>>>, <<<<1, MaxBlockEnd>>>>, <<<<0, MaxBlockEnd>>>>} :
        Scenario(ts, <<Section("S1", h, d, bl, 0, <<>>, <<>>)>>)

\* with dwells before a section with platforms
FamMilpPlatform ==
    \E ts \in TrainLists(2, 2,
                  Choices({1}, {<<"S1">>}, Ends(MaxDeparture),
                          {<<>>, "S1" :> 1, "S1" :> MaxDwell})),
       h \in Ends(MaxHeadway), d \in {1, MaxTraverse},
       cap \in {0, 1, MaxCapacity} :
        Scenario(ts, <<Section("S1", h, d, <<>>, cap, <<>>, <<>>)>>)

\* all with or all without a due time
MilpDueTimes == {<<>>, <<0>>, <<1>>, <<MaxDue - 1>>, <<MaxDue>>}

FamMilpDue ==
    \E p1 \in {1, MaxPriority}, p2 \in {1, MaxPriority},
       dep \in Ends(MaxDeparture), u1 \in MilpDueTimes, u2 \in MilpDueTimes,
       n \in 1..2, h \in Ends(MaxHeadway), d \in {1, MaxTraverse} :
        /\ (u1 = <<>>) = (u2 = <<>>)
        /\ Scenario(SubSeq(<<TrainRequest("T1", p1, <<"S1">>, dep, <<>>, u1),
                             TrainRequest("T2", p2, <<"S1">>, 0, <<>>, u2)>>,
                           1, n),
                    <<Plain("S1", h, d)>>)

\* a block window that starts at 0 and is longer than any big-M of the
\* scenarios: no start time satisfies lines 85-86
LongWindow ==
    <<0, BigMSlack + MaxDeparture + 2 * (MaxTraverse + MaxHeadway) + 1>>

FamLongBlock ==
    \E ts \in TrainLists(1, 2, MilpChoices({<<>>})),
       h \in Ends(MaxHeadway), d \in {1, MaxTraverse} :
        Scenario(ts, <<Section("S1", h, d, <<LongWindow>>, 0, <<>>, <<>>)>>)

\* the scenarios of the direct calls of schedule_trains_milp
\* one or two trains over the route S1, S2, with dwells, platforms and a
\* conflict declared between the two sections
RouteDwells == {<<>>, "S1" :> 1, "S2" :> 1}

FamMultiSection ==
    \E n \in 1..2, w1 \in RouteDwells, w2 \in RouteDwells,
       cap1 \in {0, 1, MaxCapacity}, cap2 \in {0, 1},
       cw \in {<<>>, "S2" :> MaxClearance} :
        Scenario(SubSeq(<<TrainRequest("T1", 1, <<"S1", "S2">>, 0, w1, <<>>),
                          TrainRequest("T2", MaxPriority, <<"S1", "S2">>, 0, w2,
                                       <<>>)>>, 1, n),
                 <<Section("S1", 0, 1, <<>>, cap1, cw, <<>>),
                   Section("S2", 0, 1, <<>>, cap2, <<>>, <<>>)>>)

\* two trains with different routes over sections that declare conflicts
\* and conflict groups, with equal and with different clearances
GroupMaps1 ==
    {<<>>, "G" :> 1, "G" :> MaxClearance, ("G" :> 1) @@ ("K" :> MaxClearance)}

GroupMaps2 ==
    {<<>>, "G" :> 1, "G" :> MaxClearance, ("G" :> MaxClearance) @@ ("K" :> 1)}

FamHetero ==
    \E r1 \in {<<"S1">>, <<"S1", "S2">>}, dep \in Ends(MaxDeparture),
       cw \in {<<>>, "S2" :> MaxClearance},
       cg1 \in GroupMaps1, cg2 \in GroupMaps2 :
        Scenario(<<TrainRequest("T1", 1, r1, dep, <<>>, <<>>),
                   TrainRequest("T2", 1, <<"S2">>, 0, <<>>, <<>>)>>,
                 <<Section("S1", 0, 1, <<>>, 0, cw, cg1),
                   Section("S2", 0, 1, <<>>, 0, <<>>, cg2)>>)

\* trains that share a route of one section
FamSingleDispatch ==
    \E ts \in TrainLists(0, 2, MilpChoices({<<>>})),
       h \in Ends(MaxHeadway), d \in {1, MaxTraverse} :
        Scenario(ts, <<Plain("S1", h, d)>>)

\* the scenarios of the requests to the API: two or three trains, with and
\* without due times, on routes over two sections
ApiDueTimes == {<<>>, <<0>>, <<1>>, <<MaxDue>>}

ApiTrain(id, c, u) == TrainRequest(id, c.p, c.r, c.d, <<>>, u)

FamApi ==
    \E c1 \in Choices({1, MaxPriority}, {<<"S1">>, <<"S1", "S2">>},
                      Ends(MaxDeparture), {<<>>}),
       c2 \in Choices({1}, {<<"S1">>, <<"S2">>}, {0}, {<<>>}),
       c3 \in Choices({1}, {<<"S1", "S2">>}, {0}, {<<>>}),
       u1 \in ApiDueTimes, u2 \in {<<>>, <<1>>}, n \in 0..3,
       h \in Ends(MaxHeadway), d \in {1, MaxTraverse} :
        Scenario(SubSeq(<<ApiTrain("T1", c1, u1), ApiTrain("T2", c2, u2),
                          ApiTrain("T3", c3, <<1>>)>>, 1, n),
                 <<Plain("S1", h, d), Plain("S2", 0, 1)>>)

\* otp_tolerance of a request
MaxTolerance == 2

Tolerances == {0, MaxTolerance}

\* the query parameter is any integer
ScheduleTolerances == {0 - 1} \cup Tolerances

\* predicted_conflicts of a request to /resolve
Conflict(sid, tids) == [section_id |-> sid, trains |-> tids]

ConflictLists ==
    {<<>>,
     <<Conflict("S1", <<>>)>>,
     <<Conflict("S1", <<"T1">>)>>,
     <<Conflict("S1", <<"T1", "T2">>)>>,
     <<Conflict("S1", <<"T2">>), Conflict("S2", <<"T2", "T3">>)>>,
     <<Conflict("S1", <<"TX">>)>>,
     <<Conflict("S2", <<"T3", "TX">>)>>}

\* holds of a request to /adjust
MaxHold == 2

HoldAdjustment(tid, add) == [train_id |-> tid, add_seconds |-> add]

HoldLists ==
    {<<>>,
     <<HoldAdjustment("T1", 0), HoldAdjustment("T2", 0),
       HoldAdjustment("T3", 0)>>,
     <<HoldAdjustment("T1", MaxHold)>>,
     <<HoldAdjustment("T1", 1), HoldAdjustment("T1", MaxHold)>>,
     <<HoldAdjustment("T2", MaxHold), HoldAdjustment("TX", 1)>>,
     <<HoldAdjustment("TX", MaxHold)>>,
     <<HoldAdjustment("T2", 0 - 1), HoldAdjustment("T3", 1)>>}

Solvers == {"greedy", "milp"}

\* ------------------------------------------------------------ state machine
\* nothing has been called yet
NoCall ==
    /\ pc = "ready"
    /\ solver = "none"
    /\ result = <<>>
    /\ raised = "none"
    /\ milp_exc = "none"
    /\ milp_ran = FALSE
    /\ status = "none"
    /\ request = <<>>
    /\ scheduled = <<>>
    /\ kpis = <<>>
    /\ lateness_by_train = <<>>
    /\ candidate = 0 - 1
    /\ shift_count = 0
    /\ loop = <<>>
    /\ detected = <<>>

\* no helper function is called directly
NoArgs == args = <<>>

Init ==
    /\ \/ FamContention
       \/ FamBlocks
       \/ FamRoutes
       \/ FamDwell
       \/ FamPlatform
       \/ FamConflicts
       \/ FamUnknownSection
       \/ FamDue
       \/ ScenarioA
       \/ ScenarioC
       \/ MilpTest
       \/ MultisecTest
    /\ NoCall
    /\ NoArgs

\* a direct call of greedy_scheduler.schedule_trains(trains, network)
CallGreedyScheduler ==
    /\ pc = "ready"
    /\ LET g == greedy_schedule(trains, network)
       IN  /\ result' = g.items
           /\ raised' = g.raised
    /\ solver' = "direct"
    /\ pc' = "done"
    /\ UNCHANGED <<trains, network, milp_exc, milp_ran, status, apiVars, auxVars>>

\* a call of solver.schedule_trains(trains, network, solver=s)
CallScheduleTrains(s) ==
    /\ pc = "ready"
    /\ LET r == schedule_trains(trains, network, s)
       IN  /\ result' = r.items
           /\ raised' = r.raised
           /\ milp_exc' = r.milp_exc
           /\ milp_ran' = r.milp_ran
    /\ solver' = s
    /\ pc' = "done"
    /\ UNCHANGED <<trains, network, status, apiVars, auxVars>>

Next ==
    \/ CallGreedyScheduler
    \/ \E s \in Solvers : CallScheduleTrains(s)

Spec == Init /\ [][Next]_vars

\* the same calls on input that the domain model should not accept
InvalidInit ==
    /\ \/ FamNegative
       \/ FamEmptyRoute
       \/ FamDuplicateIds
    /\ NoCall
    /\ NoArgs

InvalidSpec == InvalidInit /\ [][Next]_vars

\* a direct call of schedule_trains_single_section_milp(trains, network[1])
CallSingleSectionMilp ==
    /\ pc = "ready"
    /\ Len(network) >= 1
    /\ LET sec == network[1]
           opt == OptimalSolutions(trains, sec)
       IN  IF Len(trains) = 0
           THEN /\ result' = <<>>
                /\ raised' = "none"
                /\ status' = "none"
           ELSE \E stat \in {"Optimal", "Infeasible"} :
                    /\ stat = "Optimal" <=> opt # {}
                    /\ status' = stat
                    /\ \E st \in IF stat = "Optimal" THEN opt
                                 ELSE Leftovers(trains, sec) :
                           LET b == BuildItems(trains, sec, st)
                           IN  /\ result' = b.items
                               /\ raised' = b.raised
    /\ solver' = "milp_single"
    /\ pc' = "done"
    /\ UNCHANGED <<trains, network, milp_exc, milp_ran, apiVars, auxVars>>

MilpInit ==
    /\ \/ FamMilpBlocks
       \/ FamMilpPlatform
       \/ FamMilpDue
       \/ FamLongBlock
    /\ NoCall
    /\ NoArgs

MilpNext == CallSingleSectionMilp

MilpSpec == MilpInit /\ [][MilpNext]_vars

\* a direct call of schedule_trains_milp(network, trains); solver records
\* the formulation the call dispatched to
CallScheduleTrainsMilp ==
    /\ pc = "ready"
    /\ IF trains = <<>> \/ RaisedBeforeSolve(trains, network) # "none"
       THEN /\ result' = <<>>
            /\ raised' = RaisedBeforeSolve(trains, network)
            /\ status' = "none"
       ELSE LET opt == DispatchOptimal(trains, network)
                left == IF Formulation(trains) = "single_section"
                        THEN Leftovers(trains,
                                 section_by_id(network,
                                               trains[1].route_sections[1]))
                        ELSE LegLeftovers(trains, Legs(trains))
            IN  \E stat \in {"Optimal", "Infeasible"} :
                    /\ stat = "Optimal" <=> opt # {}
                    /\ status' = stat
                    /\ \E st \in IF stat = "Optimal" THEN opt ELSE left :
                           LET b == DispatchItems(trains, network, st)
                           IN  /\ result' = b.items
                               /\ raised' = b.raised
    /\ solver' = Formulation(trains)
    /\ pc' = "done"
    /\ UNCHANGED <<trains, network, milp_exc, milp_ran, apiVars, auxVars>>

RouteMilpInit ==
    /\ \/ FamMultiSection
       \/ FamHetero
       \/ FamSingleDispatch
    /\ NoCall
    /\ NoArgs

RouteMilpNext == CallScheduleTrainsMilp

RouteMilpSpec == RouteMilpInit /\ [][RouteMilpNext]_vars

\* the response r of an endpoint to the request req
Respond(r, req, s) ==
    /\ result' = r.items
    /\ raised' = r.raised
    /\ kpis' = r.kpis
    /\ lateness_by_train' = r.lateness_by_train
    /\ scheduled' = r.scheduled
    /\ request' = req
    /\ solver' = s
    /\ pc' = "done"
    /\ UNCHANGED <<trains, network, milp_exc, milp_ran, status, auxVars>>

\* POST /schedule?solver=s&otp_tolerance=tol
PostSchedule(s, tol) ==
    /\ pc = "ready"
    /\ Respond(schedule(trains, network, s, tol),
               [endpoint |-> "schedule", otp_tolerance |-> tol,
                conflicts |-> <<>>, holds |-> <<>>], s)

\* POST /resolve?solver=s&otp_tolerance=tol with predicted_conflicts
PostResolve(s, tol, conflicts) ==
    /\ pc = "ready"
    /\ Respond(resolve(trains, network, conflicts, s, tol),
               [endpoint |-> "resolve", otp_tolerance |-> tol,
                conflicts |-> conflicts, holds |-> <<>>], s)

\* POST /adjust with holds, solver (or none) and otp_tolerance in the body
PostAdjust(s, tol, holds) ==
    /\ pc = "ready"
    /\ Respond(adjust(trains, network, holds, s, tol),
               [endpoint |-> "adjust", otp_tolerance |-> tol,
                conflicts |-> <<>>, holds |-> holds], s)

ApiInit ==
    /\ \/ FamApi
       \/ FamUnknownSection
    /\ NoCall
    /\ NoArgs

ApiNext ==
    \/ \E s \in Solvers, tol \in ScheduleTolerances : PostSchedule(s, tol)
    \/ \E s \in Solvers, tol \in Tolerances, c \in ConflictLists :
           PostResolve(s, tol, c)
    \/ \E s \in Solvers \cup {"none"}, tol \in Tolerances, h \in HoldLists :
           PostAdjust(s, tol, h)

ApiSpec == ApiInit /\ [][ApiNext]_vars

\* ---------------------------------------- a direct call of _find_earliest
\* the arguments of the call: a section's headway, traverse time and block
\* windows, the occupancy list the greedy scheduler keeps for the section
\* (items of one traverse time, sorted by entry, a headway apart, clear of
\* the windows), and the start candidate
FindBlockLists ==
    LET ws == {v \in Windows : v[1] < v[2]}
    IN  {<<>>} \cup {<<w>> : w \in ws} \cup {<<w, v>> : w \in ws, v \in ws}

OccItems(es, D) ==
    [i \in 1..Len(es) |-> ScheduleItem(TrainIds[i], "S1", es[i], es[i] + D)]

OccLists(H, D, blocks) ==
    {OccItems(es, D) :
        es \in {x \in UNION {[1..n -> 0..MaxBlockEnd] : n \in 0..2} :
                  /\ \A i \in 1..(Len(x) - 1) : x[i + 1] >= x[i] + D + H
                  /\ \A i \in 1..Len(x) : \A w \in 1..Len(blocks) :
                         ~HitsBlock(x[i], D, blocks[w])}}

FindArgs(start, H, D, occ, blocks) ==
    [start |-> start, headway |-> H, traverse |-> D, occ |-> occ,
     blocks |-> blocks]

FindInit ==
    /\ \E h \in Ends(MaxHeadway), d \in Traverses, st \in Ends(MaxDeparture),
          bl \in FindBlockLists :
           \E occ \in OccLists(h, d, bl) :
               args = FindArgs(st, h, d, occ, bl)
    /\ trains = <<>>
    /\ network = <<>>
    /\ NoCall

\* one shift per stored item and per block window, and one more so that a
\* shift beyond that count can be seen
ShiftCap == Len(args.occ) + Len(args.blocks) + 1

\* lines 42-45: entry = start, the first iteration of the while loop begins
FindEnter ==
    /\ pc = "ready"
    /\ candidate' = args.start
    /\ shift_count' = 0
    /\ loop' = [j |-> 1, i |-> 1, moved |-> FALSE, by |-> {}]
    /\ pc' = "blocks"
    /\ solver' = "find"
    /\ UNCHANGED <<trains, network, result, raised, milp_exc, milp_ran,
                   status, apiVars, args, detected>>

\* lines 48-51: one iteration of the for loop over the block windows
FindBlockCheck ==
    /\ pc = "blocks"
    /\ loop.j <= Len(args.blocks)
    /\ shift_count < ShiftCap
    /\ IF HitsBlock(candidate, args.traverse, args.blocks[loop.j])
       THEN /\ candidate' = BlockJump(args.blocks[loop.j], args.traverse)
            /\ shift_count' = shift_count + 1
            /\ loop' = [loop EXCEPT !.j = @ + 1, !.moved = TRUE,
                                    !.by = @ \cup {<<"block", loop.j>>}]
       ELSE /\ loop' = [loop EXCEPT !.j = @ + 1]
            /\ UNCHANGED <<candidate, shift_count>>
    /\ UNCHANGED <<trains, network, pc, solver, result, raised, milp_exc,
                   milp_ran, status, apiVars, args, detected>>

\* lines 52-53: after the for loop, `continue` when a window moved the
\* candidate, else go on to the scan of the stored items
FindBlockPassEnd ==
    /\ pc = "blocks"
    /\ loop.j > Len(args.blocks)
    /\ IF loop.moved
       THEN /\ loop' = [loop EXCEPT !.j = 1, !.i = 1, !.moved = FALSE]
            /\ pc' = "blocks"
       ELSE /\ loop' = [loop EXCEPT !.i = 1]
            /\ pc' = "occ"
    /\ UNCHANGED <<trains, network, solver, result, raised, milp_exc,
                   milp_ran, status, apiVars, args, candidate, shift_count, detected>>

\* lines 55-64: one iteration of the while loop over the stored items
FindOccCheck ==
    /\ pc = "occ"
    /\ loop.i <= Len(args.occ)
    /\ shift_count < ShiftCap
    /\ LET cur == args.occ[loop.i]
       IN  IF ~Clears(candidate, args.headway, args.traverse, cur)
           THEN /\ candidate' = Max(cur.exit + args.headway,
                                cur.exit + args.headway)
                /\ shift_count' = shift_count + 1
                /\ loop' = [loop EXCEPT !.i = 1,
                                        !.by = @ \cup {<<"occ", loop.i>>}]
           ELSE /\ loop' = [loop EXCEPT !.i = @ + 1]
                /\ UNCHANGED <<candidate, shift_count>>
    /\ UNCHANGED <<trains, network, pc, solver, result, raised, milp_exc,
                   milp_ran, status, apiVars, args, detected>>

\* lines 65-67: break and return entry
FindReturn ==
    /\ pc = "occ"
    /\ loop.i > Len(args.occ)
    /\ pc' = "done"
    /\ UNCHANGED <<trains, network, solver, result, raised, milp_exc,
                   milp_ran, status, apiVars, auxVars>>

FindNext ==
    \/ FindEnter
    \/ FindBlockCheck
    \/ FindBlockPassEnd
    \/ FindOccCheck
    \/ FindReturn

FindSpec == FindInit /\ [][FindNext]_vars

\* the loop is not interrupted: a call that can take a step takes it
FindLiveSpec == FindSpec /\ WF_vars(FindNext)

\* ------------------------------- a direct call of detect_future_conflicts
\* the state of a request to /predict: trains with an empty route or a first
\* section, departures around the conflict window, and a predicted delay of
\* 0 or MaxDelay minutes for some of the trains
MaxDelay == 1

DetectDepartures == {0, ConflictWindow - 1, ConflictWindow, 2 * ConflictWindow}

DetectTrainLists ==
    TrainLists(0, MaxTrains,
               Choices({1}, {<<>>, <<"S1">>, <<"S2", "S1">>}, DetectDepartures,
                       {<<>>}))

DelayMaps(ts) ==
    UNION {[ids -> {MaxDelay}] : ids \in SUBSET {ts[i].id : i \in 1..Len(ts)}}

DetectInit ==
    /\ \E ts \in DetectTrainLists :
           /\ trains = ts
           /\ \E delays \in DelayMaps(ts) :
                  args = [predicted_delays_min |-> delays]
    /\ network = <<Plain("S1", 0, 1), Plain("S2", 0, 1)>>
    /\ NoCall

\* detect_future_conflicts(predicted_delays_min, state)
CallDetectFutureConflicts ==
    /\ pc = "ready"
    /\ detected' = detect_future_conflicts(args.predicted_delays_min, trains)
    /\ solver' = "detect"
    /\ pc' = "done"
    /\ UNCHANGED <<trains, network, result, raised, milp_exc, milp_ran,
                   status, apiVars, args, candidate, shift_count, loop>>

DetectNext == CallDetectFutureConflicts

DetectSpec == DetectInit /\ [][DetectNext]_vars

\* --------------------------------------------------------------- properties
\* the call returned a schedule
Returned == pc = "done" /\ raised = "none"

\* every route section exists in the network
ValidInput ==
    \A i \in 1..Len(trains) : \A k \in 1..Len(trains[i].route_sections) :
        HasSection(network, trains[i].route_sections[k])

TrainById(tid) == trains[CHOOSE i \in 1..Len(trains) : trains[i].id = tid]

ItemsOfTrain(items, tid) == SelectSeq(items, LAMBDA it : it.train_id = tid)

ItemsOnSection(items, sid) == SelectSeq(items, LAMBDA it : it.section_id = sid)

NetworkIds == {network[i].id : i \in 1..Len(network)}

\* C1: in every returned schedule, on every section, consecutive items
\* sorted by entry are separated by the section's headway, and the
\* [entry, exit) intervals of distinct trains are disjoint.
C1_Headway ==
    Returned =>
        \A sid \in NetworkIds :
            LET on == SortedByEntry(ItemsOnSection(result, sid))
                H == section_by_id(network, sid).headway_seconds
            IN  /\ \A i \in 1..(Len(on) - 1) :
                       on[i + 1].entry >= on[i].exit + H
                /\ \A i \in 1..Len(on) : \A j \in 1..Len(on) :
                       on[i].train_id # on[j].train_id =>
                           \/ on[i].exit <= on[j].entry
                           \/ on[j].exit <= on[i].entry

\* a second train was pushed behind the first by a positive headway, in
\* 'milp' mode
C1_Witness ==
    /\ Returned
    /\ solver = "milp"
    /\ \E sid \in NetworkIds :
          LET on == SortedByEntry(ItemsOnSection(result, sid))
              H == section_by_id(network, sid).headway_seconds
          IN  /\ Len(on) >= 2
              /\ H > 0
              /\ on[1].train_id # on[2].train_id
              /\ on[2].entry = on[1].exit + H
              /\ on[2].entry > TrainById(on[2].train_id).planned_departure

\* C2: in every returned schedule no item on a section overlaps a block
\* window [a, b) of that section: exit <= a or entry >= b.
C2_BlockAvoidance ==
    Returned =>
        \A i \in 1..Len(result) :
            LET bl == section_by_id(network, result[i].section_id).block_windows
            IN  \A w \in 1..Len(bl) :
                    result[i].exit <= bl[w][1] \/ result[i].entry >= bl[w][2]

\* C3: in every returned schedule, consecutive legs k, k+1 of a train satisfy
\* entry[k+1] >= entry[k] + traverse(route[k]) + dwell_before[route[k+1]].
C3_RouteOrderWithDwell ==
    Returned =>
        \A t \in 1..Len(trains) :
            LET its == ItemsOfTrain(result, trains[t].id)
            IN  \A k \in 1..(Len(its) - 1) :
                    its[k + 1].entry >=
                        its[k].entry
                        + section_by_id(network, its[k].section_id).traverse_seconds
                        + DictGet(trains[t].dwell_before, its[k + 1].section_id)

\* C4: in mode 'milp' the mixed-integer scheduler is run, and the greedy
\* schedule is returned only after a failure of that scheduler.
MilpFailures == {"SolverFailed", "Infeasible", "Timeout", "NotImplemented"}

C4_MilpRuns ==
    (pc = "done" /\ solver = "milp") =>
        /\ milp_ran
        /\ milp_exc \in MilpFailures \cup {"none"}

\* the dwell intervals [entry - dwell, entry) of the items on a section that
\* contain the time point tau
DwellersAt(items, sid, tau) ==
    {i \in 1..Len(items) :
        LET w == DictGet(TrainById(items[i].train_id).dwell_before, sid)
        IN  /\ items[i].section_id = sid
            /\ w > 0
            /\ items[i].entry - w <= tau
            /\ tau < items[i].entry}

\* C5: in a schedule returned in mode 'milp', on a section with platform
\* capacity K no time point lies in more than K pre-entry dwell intervals.
C5_PlatformCapacity ==
    (Returned /\ solver = "milp") =>
        \A sid \in NetworkIds :
            LET K == section_by_id(network, sid).platform_capacity
            IN  K >= 1 =>
                    \A i \in 1..Len(result) :
                        LET tau == result[i].entry - 1
                        IN  Cardinality(DwellersAt(result, sid, tau)) <= K

\* every entry on sid is at least c away from every entry on other
Separated(items, sid, other, c) ==
    \A i \in 1..Len(items) : \A j \in 1..Len(items) :
        (items[i].section_id = sid /\ items[j].section_id = other) =>
            Abs(items[i].entry - items[j].entry) >= c

\* C6: in a schedule returned in mode 'milp', entries on two sections related
\* by conflicts_with, or by a shared conflict group, are separated by the
\* declared clearance.
C6_Clearance ==
    (Returned /\ solver = "milp") =>
        \A sid \in NetworkIds : \A other \in NetworkIds :
            LET sec == section_by_id(network, sid)
                osec == section_by_id(network, other)
            IN  /\ other \in DOMAIN sec.conflicts_with =>
                       Separated(result, sid, other, sec.conflicts_with[other])
                /\ sid # other =>
                       \A g \in DOMAIN sec.conflict_groups
                                   \cap DOMAIN osec.conflict_groups :
                           Separated(result, sid, other, sec.conflict_groups[g])

\* C7: in mode 'milp' on valid input, an exception raised by the
\* mixed-integer path never leaves schedule_trains; the call returns the
\* greedy scheduler's items.
C7_FallbackToGreedy ==
    (pc = "done" /\ solver = "milp" /\ milp_exc # "none" /\ ValidInput) =>
        /\ raised = "none"
        /\ result = greedy_schedule(trains, network).items

C7_Witness ==
    /\ pc = "done"
    /\ solver = "milp"
    /\ milp_exc = "TypeError"
    /\ ValidInput
    /\ Len(result) >= 3

\* C8: in every returned schedule every entry of a train, and so the entry
\* on the first section of its route, is >= the train's planned_departure.
C8_DepartureFloor ==
    Returned =>
        \A t \in 1..Len(trains) :
            LET its == ItemsOfTrain(result, trains[t].id)
            IN  \A k \in 1..Len(its) :
                    /\ its[k].entry >= trains[t].planned_departure
                    /\ k = 1 => its[k].section_id = trains[t].route_sections[1]

\* a block window holds the planned departure of a train and the train
\* enters at the window's end
C8_Witness ==
    /\ Returned
    /\ \E t \in 1..Len(trains) :
          LET its == ItemsOfTrain(result, trains[t].id)
              bl == section_by_id(network, its[1].section_id).block_windows
          IN  /\ Len(its) >= 1
              /\ Len(bl) >= 1
              /\ bl[1][1] <= trains[t].planned_departure
              /\ trains[t].planned_departure < bl[1][2]
              /\ its[1].entry = bl[1][2]

\* C9: on valid input the greedy scheduler does not fail and returns, for
\* every train, exactly one item per route position, in route order, each
\* with exit = entry + traverse_seconds of its section.
RECURSIVE TotalLegs(_, _)
TotalLegs(ts, i) ==
    IF i > Len(ts) THEN 0 ELSE Len(ts[i].route_sections) + TotalLegs(ts, i + 1)

C9_GreedyComplete ==
    (pc = "done" /\ solver \in {"direct", "greedy"} /\ ValidInput) =>
        /\ raised = "none"
        /\ Len(result) = TotalLegs(trains, 1)
        /\ \A t \in 1..Len(trains) :
               LET its == ItemsOfTrain(result, trains[t].id)
               IN  [k \in 1..Len(its) |-> its[k].section_id]
                       = trains[t].route_sections
        /\ \A i \in 1..Len(result) :
               result[i].exit = result[i].entry
                   + section_by_id(network, result[i].section_id).traverse_seconds

C9_Witness ==
    /\ pc = "done"
    /\ solver = "direct"
    /\ raised = "none"
    /\ Len(trains) = 2
    /\ \A t \in 1..2 : Len(trains[t].route_sections) = 2
    /\ Len(result) = 4
    /\ \E i \in 1..4 : result[i].exit > result[i].entry

\* the order of the claim: priority descending, planned_departure ascending,
\* ties by input order
PlacedAfter(ts, u, t) ==
    \/ ts[u].priority < ts[t].priority
    \/ /\ ts[u].priority = ts[t].priority
       /\ ts[u].planned_departure > ts[t].planned_departure
    \/ /\ ts[u].priority = ts[t].priority
       /\ ts[u].planned_departure = ts[t].planned_departure
       /\ u > t

RemoveAt(ts, u) == SubSeq(ts, 1, u - 1) \o SubSeq(ts, u + 1, Len(ts))

\* C10: the items of a train do not change when a train placed after it
\* (priority descending, planned_departure ascending, input order) is removed
\* from the input; in Scenario A, T2 gets [60, 160) and T1 [280, 380).
C10_PriorityOrder ==
    (Returned /\ solver \in {"direct", "greedy"}) =>
        /\ \A t \in 1..Len(trains) : \A u \in 1..Len(trains) :
               PlacedAfter(trains, u, t) =>
                   ItemsOfTrain(greedy_schedule(RemoveAt(trains, u), network).items,
                                trains[t].id)
                       = ItemsOfTrain(result, trains[t].id)
        /\ \A t \in 1..Len(trains) :
               (\A u \in 1..Len(trains) : u # t => PlacedAfter(trains, u, t)) =>
                   greedy_schedule(<<trains[t]>>, network).items
                       = ItemsOfTrain(result, trains[t].id)
        /\ ScenarioA =>
               result = <<ScheduleItem("T2", "S1", 60, 160),
                          ScheduleItem("T1", "S1", 280, 380)>>

\* Scenario A: T2, later in the input and departing later but of higher
\* priority, takes the slot it would get alone; T1 waits for T2's headway
C10_Witness ==
    /\ Returned
    /\ solver = "greedy"
    /\ ScenarioA
    /\ result[1].train_id = "T2"
    /\ result[1].entry = trains[2].planned_departure
    /\ result[2].train_id = "T1"
    /\ result[2].entry > trains[1].planned_departure

\* the due time of a train is met by an entry at time e
MeetsDue(t, e) == t.due_time # <<>> /\ e <= t.due_time[1]

\* two due-timed trains with equal planned_departure and the same
\* single-section route over a section without block windows, each of whose
\* due times is met in both entry orders: the second train of either order
\* enters at planned_departure + traverse + headway
TwoDueTrainsEitherOrder ==
    /\ Len(trains) = 2
    /\ trains[1].id # trains[2].id
    /\ Len(trains[1].route_sections) = 1
    /\ trains[1].route_sections = trains[2].route_sections
    /\ trains[1].planned_departure = trains[2].planned_departure
    /\ HasSection(network, trains[1].route_sections[1])
    /\ LET sec == section_by_id(network, trains[1].route_sections[1])
           second == trains[1].planned_departure + sec.traverse_seconds
                         + sec.headway_seconds
       IN  /\ sec.block_windows = <<>>
           /\ MeetsDue(trains[1], second)
           /\ MeetsDue(trains[2], second)

\* C11: in mode 'milp', of two due-timed trains with equal planned_departure
\* on the same single section whose due times are met in either entry order,
\* the train with the earlier due_time enters first, whatever the priorities
\* (Scenario C: T2 before T1).
C11_EarlierDueFirst ==
    (Returned /\ solver = "milp" /\ TwoDueTrainsEitherOrder) =>
        \A t \in 1..2 : \A u \in 1..2 :
            trains[t].due_time[1] < trains[u].due_time[1] =>
                \A i \in 1..Len(result) : \A j \in 1..Len(result) :
                    (result[i].train_id = trains[t].id
                        /\ result[j].train_id = trains[u].id) =>
                        result[i].entry < result[j].entry

\* the network with platform_capacity, conflicts_with and conflict_groups of
\* every section replaced by cap, cw and cg
WithSectionFields(net, cap, cw, cg) ==
    [i \in 1..Len(net) |->
        [net[i] EXCEPT !.platform_capacity = cap,
                       !.conflicts_with = cw,
                       !.conflict_groups = cg]]

\* the three fields unset, and set to values that constrain every section
StrippedNetwork(net) == WithSectionFields(net, 0, <<>>, <<>>)

LoadedNetwork(net) ==
    WithSectionFields(net, 1,
        [sid \in {net[i].id : i \in 1..Len(net)} |-> MaxClearance],
        "G" :> MaxClearance)

\* C12: the greedy scheduler returns the same items in the same order (or
\* the same error) for inputs that differ only in platform_capacity,
\* conflicts_with and conflict_groups.
C12_GreedyIgnoresFields ==
    (pc = "done" /\ solver \in {"direct", "greedy"}) =>
        \A net \in {StrippedNetwork(network), LoadedNetwork(network)} :
            greedy_schedule(trains, net) = [items |-> result, raised |-> raised]

\* two trains enter conflicting sections at the same time, and two dwelling
\* trains follow each other onto a section with one platform
C12_Witness ==
    /\ Returned
    /\ solver = "direct"
    /\ Len(result) = 2
    /\ result[1].train_id # result[2].train_id
    /\ \/ /\ result[1].section_id # result[2].section_id
          /\ result[1].entry = result[2].entry
          /\ LET sec == section_by_id(network, result[1].section_id)
             IN  /\ result[2].section_id \in DOMAIN sec.conflicts_with
                 /\ sec.conflicts_with[result[2].section_id] > 0
       \/ /\ result[1].section_id = result[2].section_id
          /\ section_by_id(network, result[1].section_id).platform_capacity = 1
          /\ \A t \in 1..2 :
                 DictGet(trains[t].dwell_before, result[1].section_id) > 0


\* the input that the claim calls valid: no negative duration or departure,
\* no empty route, unique train ids and unique section ids
WellFormed(ts, net) ==
    /\ \A i \in 1..Len(net) :
           net[i].headway_seconds >= 0 /\ net[i].traverse_seconds >= 0
    /\ \A i \in 1..Len(ts) :
           /\ ts[i].planned_departure >= 0
           /\ ts[i].route_sections # <<>>
           /\ \A w \in Values(ts[i].dwell_before) : w >= 0
    /\ \A i \in 1..Len(ts) : \A j \in 1..Len(ts) :
           ts[i].id = ts[j].id => i = j
    /\ \A i \in 1..Len(net) : \A j \in 1..Len(net) :
           net[i].id = net[j].id => i = j

\* C13: input with a negative headway, traverse, dwell or planned_departure,
\* an empty route, or repeated train or section ids is rejected with
\* InvalidInput, so no call of either solver returns a schedule for it.
C13_InvalidInputRejected ==
    (pc = "done" /\ ~WellFormed(trains, network)) =>
        /\ raised = "InvalidInput"
        /\ result = <<>>

\* C14: a call of the mixed-integer scheduler whose solver run did not end
\* with a solved model raises SolverFailed and returns no items.
C14_SolverFailed ==
    (pc = "done" /\ solver = "milp_single" /\ status = "Infeasible") =>
        /\ raised = "SolverFailed"
        /\ result = <<>>

\* an endpoint answered with a KPI map
Answered(endpoint) ==
    /\ pc = "done"
    /\ request.endpoint = endpoint
    /\ raised = "none"
    /\ "otp_end" \in DOMAIN kpis

AnsweredAny == \E e \in {"schedule", "resolve", "adjust"} : Answered(e)

\* the positions in items of the items of train tid on section sid
PositionsOn(items, tid, sid) ==
    {i \in 1..Len(items) :
        items[i].train_id = tid /\ items[i].section_id = sid}

TerminalSection(t) == t.route_sections[Len(t.route_sections)]

\* the trains with a due time and an item on their terminal section
DueTimed(items, ts) ==
    {i \in 1..Len(ts) :
        /\ ts[i].due_time # <<>>
        /\ ts[i].route_sections # <<>>
        /\ PositionsOn(items, ts[i].id, TerminalSection(ts[i])) # {}}

\* max(0, first recorded entry on the last route section - due_time)
ClaimedLateness(items, t) ==
    LET pos == PositionsOn(items, t.id, TerminalSection(t))
        first == CHOOSE i \in pos : \A j \in pos : i <= j
    IN  IF items[first].entry > t.due_time[1]
        THEN items[first].entry - t.due_time[1]
        ELSE 0

RECURSIVE SumSet(_, _)
SumSet(f, X) ==
    IF X = {}
    THEN 0
    ELSE LET x == CHOOSE x \in X : TRUE IN f[x] + SumSet(f, X \ {x})

\* C15: the lateness KPIs of a response range over exactly the due-timed
\* trains with an item on their terminal section, with lateness[t] =
\* max(0, first entry on the last route section - due_time[t]);
\* total_lateness is the sum, avg_lateness the sum over the count, otp_end
\* 100 * #(lateness <= tolerance) / count, all 0 when there is no such
\* train; lateness_by_train of /schedule maps each such train to lateness[t].
C15_LatenessKpis ==
    AnsweredAny =>
        LET ts == scheduled.trains
            due == DueTimed(result, ts)
            lat == [i \in due |-> ClaimedLateness(result, ts[i])]
            n == Cardinality(due)
            total == SumSet(lat, due)
            ontime == Cardinality({i \in due : lat[i] <= request.otp_tolerance})
        IN  /\ kpis.total_lateness = total
            /\ n = 0 => /\ kpis.avg_lateness.num = 0
                        /\ kpis.otp_end.num = 0
            /\ n > 0 => /\ FracEq(kpis.avg_lateness, Frac(total, n))
                        /\ FracEq(kpis.otp_end, Frac(100 * ontime, n))
            /\ request.endpoint = "schedule" =>
                   /\ DOMAIN lateness_by_train = {ts[i].id : i \in due}
                   /\ \A i \in due : lateness_by_train[ts[i].id] = lat[i]

\* /schedule answered for two due-timed trains, one on time within a
\* positive tolerance and one later than the tolerance
C15_Witness ==
    /\ Answered("schedule")
    /\ request.otp_tolerance > 0
    /\ Cardinality(DOMAIN lateness_by_train) = 2
    /\ \E a \in DOMAIN lateness_by_train :
           /\ lateness_by_train[a] > 0
           /\ lateness_by_train[a] <= request.otp_tolerance
    /\ \E b \in DOMAIN lateness_by_train :
           lateness_by_train[b] > request.otp_tolerance
    /\ kpis.total_lateness > 0
    /\ FracEq(kpis.otp_end, Frac(50, 1))

\* the tolerances compared: from 0 past the largest lateness of the scenarios
ToleranceRange == 0..(MaxTolerance + 2)

\* C16: for the schedule and trains of a response, otp_end does not decrease
\* when the tolerance grows from a tolerance >= 0; the reported otp0_end is
\* at most otp_end, and both lie in [0, 100].
C16_OtpMonotone ==
    (AnsweredAny /\ request.otp_tolerance >= 0) =>
        /\ \A t1 \in ToleranceRange : \A t2 \in ToleranceRange :
               t1 <= t2 =>
                   FracLeq(lateness_kpis(result, scheduled.trains, t1).otp_end,
                           lateness_kpis(result, scheduled.trains, t2).otp_end)
        /\ \A t2 \in ToleranceRange :
               request.otp_tolerance <= t2 =>
                   FracLeq(kpis.otp_end,
                           lateness_kpis(result, scheduled.trains, t2).otp_end)
        /\ FracLeq(kpis.otp0_end, kpis.otp_end)
        /\ FracLeq(Frac(0, 1), kpis.otp0_end)
        /\ FracLeq(kpis.otp_end, Frac(100, 1))

\* the tolerance of the request lifts the OTP above the OTP at tolerance 0
C16_Witness ==
    /\ AnsweredAny
    /\ request.otp_tolerance > 0
    /\ ~FracLeq(kpis.otp_end, kpis.otp0_end)
    /\ ~FracLeq(Frac(100, 1), kpis.otp_end)

\* C17: total_trains is the number of distinct train ids of the items,
\* makespan = max(exit) - min(entry), utilization =
\* floor(100 * sum(exit - entry) / makespan) clamped to [0, 100] and 0 when
\* the makespan is 0, conflicts = 0; an empty schedule gives the all-zero map.
C17_Summary ==
    AnsweredAny =>
        LET n == Len(result)
            ids == {result[i].train_id : i \in 1..n}
            first == CHOOSE e \in {result[i].entry : i \in 1..n} :
                         \A i \in 1..n : e <= result[i].entry
            last == CHOOSE x \in {result[i].exit : i \in 1..n} :
                        \A i \in 1..n : x >= result[i].exit
            busy == SumSet([i \in 1..n |-> result[i].exit - result[i].entry],
                           1..n)
        IN  /\ kpis.conflicts = 0
            /\ kpis.total_trains = Cardinality(ids)
            /\ n = 0 => kpis.makespan = 0 /\ kpis.utilization = 0
            /\ n > 0 =>
                   /\ kpis.makespan = last - first
                   /\ last - first = 0 => kpis.utilization = 0
                   /\ last - first > 0 =>
                          LET u == (100 * busy) \div (last - first)
                          IN  kpis.utilization =
                                  IF u > 100 THEN 100 ELSE IF u < 0 THEN 0 ELSE u

\* two trains run in parallel on two sections: the busy time exceeds the
\* makespan and the utilization is clamped
C17_Witness ==
    /\ AnsweredAny
    /\ kpis.total_trains >= 2
    /\ kpis.makespan > 0
    /\ kpis.utilization = 100
    /\ SumSet([i \in 1..Len(result) |-> result[i].exit - result[i].entry],
              1..Len(result)) > kpis.makespan

\* the ids named by at least one conflict record
NamedInConflicts(conflicts) ==
    UNION {{conflicts[k].trains[j] : j \in DOMAIN conflicts[k].trains} :
              k \in DOMAIN conflicts}

\* C18: /resolve schedules exactly the trains of the state named by a
\* conflict record, on the state sections on those trains' routes, and
\* returns one item per leg of each such train and no other item; when the
\* conflict records name no train, all trains of the state are scheduled.
C18_ResolveSubset ==
    (pc = "done" /\ request.endpoint = "resolve" /\ trains # <<>> /\ ValidInput) =>
        LET named == NamedInConflicts(request.conflicts)
            chosen == IF named = {}
                      THEN 1..Len(trains)
                      ELSE {i \in 1..Len(trains) : trains[i].id \in named}
        IN  /\ raised = "none"
            /\ {scheduled.trains[i] : i \in 1..Len(scheduled.trains)}
                   = {trains[i] : i \in chosen}
            /\ Len(scheduled.trains) = Cardinality(chosen)
            /\ named # {} =>
                   {scheduled.network[i] : i \in 1..Len(scheduled.network)}
                       = {network[i] : i \in {j \in 1..Len(network) :
                             \E t \in chosen : \E k \in 1..Len(trains[t].route_sections) :
                                 trains[t].route_sections[k] = network[j].id}}
            /\ named = {} => scheduled.network = network
            /\ \A i \in 1..Len(trains) :
                   LET its == ItemsOfTrain(result, trains[i].id)
                   IN  IF i \in chosen
                       THEN [k \in 1..Len(its) |-> its[k].section_id]
                                = trains[i].route_sections
                       ELSE its = <<>>

\* a conflict names one of three trains: only that train and the section of
\* its route are scheduled
C18_Witness ==
    /\ pc = "done"
    /\ request.endpoint = "resolve"
    /\ raised = "none"
    /\ Len(trains) = 3
    /\ Len(scheduled.trains) = 1
    /\ Len(scheduled.network) = 1
    /\ Len(network) = 2
    /\ Len(result) = 1

\* the sum of the add_seconds of the holds that name tid
RECURSIVE TotalHold(_, _, _)
TotalHold(holds, tid, k) ==
    IF k > Len(holds)
    THEN 0
    ELSE (IF holds[k].train_id = tid THEN holds[k].add_seconds ELSE 0)
             + TotalHold(holds, tid, k + 1)

\* C19: /adjust adds to the planned_departure of every train the sum of the
\* holds that name it and changes nothing else (a hold with an unknown id
\* changes nothing); the whole state is then scheduled: every train has
\* items and a held train's first entry is >= its original
\* planned_departure plus its total hold.
C19_HoldsApplied ==
    (pc = "done" /\ request.endpoint = "adjust" /\ trains # <<>> /\ ValidInput) =>
        /\ raised = "none"
        /\ scheduled.network = network
        /\ scheduled.trains =
               [i \in 1..Len(trains) |->
                   [trains[i] EXCEPT !.planned_departure =
                        @ + TotalHold(request.holds, trains[i].id, 1)]]
        /\ \A i \in 1..Len(trains) :
               LET its == ItemsOfTrain(result, trains[i].id)
               IN  /\ Len(its) = Len(trains[i].route_sections)
                   /\ its # <<>>
                   /\ its[1].entry >= trains[i].planned_departure
                          + TotalHold(request.holds, trains[i].id, 1)

\* two holds on one train accumulate and push its first entry
C19_Witness ==
    /\ pc = "done"
    /\ request.endpoint = "adjust"
    /\ raised = "none"
    /\ Len(request.holds) = 2
    /\ request.holds[1].train_id = request.holds[2].train_id
    /\ Len(trains) >= 2
    /\ scheduled.trains[1].planned_departure
           = trains[1].planned_departure + 1 + MaxHold
    /\ ItemsOfTrain(result, "T1")[1].entry
           = trains[1].planned_departure + 1 + MaxHold
    /\ scheduled.trains[2] = trains[2]

\* every hold of the request adds 0 seconds
ZeroHolds(holds) == \A k \in 1..Len(holds) : holds[k].add_seconds = 0

\* C20: /adjust with an empty hold list, or with holds of 0 seconds, returns
\* item for item the schedule of the unmodified state under the same solver.
C20_ZeroHoldIdentity ==
    (pc = "done" /\ request.endpoint = "adjust" /\ trains # <<>>
        /\ ZeroHolds(request.holds)) =>
        LET direct == schedule_trains(trains, network,
                          IF solver = "none" THEN "greedy" ELSE solver)
        IN  /\ raised = direct.raised
            /\ result = direct.items

\* holds of 0 seconds on all three contending trains
C20_Witness ==
    /\ pc = "done"
    /\ request.endpoint = "adjust"
    /\ raised = "none"
    /\ Len(request.holds) = 3
    /\ ZeroHolds(request.holds)
    /\ Len(trains) = 3
    /\ Len(result) >= 4
    /\ \E i \in 1..Len(result) :
           result[i].entry > TrainById(result[i].train_id).planned_departure

\* an entry at e in a call of _find_earliest with arguments a avoids every
\* block window and keeps the headway on both sides of every stored item
FreeAt(e, a) ==
    /\ \A w \in 1..Len(a.blocks) :
           \/ e + a.traverse <= a.blocks[w][1]
           \/ e >= a.blocks[w][2]
    /\ \A i \in 1..Len(a.occ) :
           \/ e + a.traverse + a.headway <= a.occ[i].entry
           \/ e >= a.occ[i].exit + a.headway

\* the call of _find_earliest returned
FindReturned == pc = "done" /\ solver = "find"

\* C22: _find_earliest returns the smallest e >= start such that [e, e+D)
\* intersects no block window and every stored item is a headway away on
\* one side; the block windows are reconsidered after a shift caused by a
\* stored item.
C22_SmallestFreeEntry ==
    FindReturned =>
        /\ candidate >= args.start
        /\ FreeAt(candidate, args)
        /\ \A e \in args.start..(candidate - 1) : ~FreeAt(e, args)

\* an iteration of a loop of _find_earliest that shifts the candidate
FindShift == shift_count' = shift_count + 1

\* C23: _find_earliest terminates for H >= 0 and D >= 0: every shift
\* strictly increases the candidate entry, no stored item and no block
\* window causes a second shift, and the number of shifts is at most
\* |occ| + |blocks|.
C23_FindTerminates ==
    /\ <>(pc = "done")
    /\ [](shift_count <= Len(args.occ) + Len(args.blocks))
    /\ [][/\ candidate' # candidate => pc = "ready" \/ FindShift
          /\ (pc # "ready" /\ FindShift) =>
                 /\ candidate' > candidate
                 /\ Cardinality(loop'.by) = Cardinality(loop.by) + 1]_vars

\* a call in which both block windows and both stored items shifted the
\* candidate, and which returned what the operator _find_earliest computes
C23_Witness ==
    /\ FindReturned
    /\ Len(args.occ) = 2
    /\ Len(args.blocks) = 2
    /\ shift_count = 4
    /\ candidate = _find_earliest(args.start, args.headway, args.traverse,
                                  args.occ, args.blocks)
    /\ shift_count = FindLoop(args.start, args.headway, args.traverse,
                              args.occ, args.blocks, 0).shifts

\* the call went through the greedy scheduler alone
GreedyReturned == Returned /\ solver \in {"direct", "greedy"}

\* C28: in every greedy schedule a train enters leg k+1 no earlier than its
\* exit from leg k plus the headway of the section of leg k.
C28_NextLegAfterHeadway ==
    GreedyReturned =>
        \A t \in 1..Len(trains) :
            LET its == ItemsOfTrain(result, trains[t].id)
            IN  \A k \in 1..(Len(its) - 1) :
                    its[k + 1].entry >=
                        its[k].exit
                        + section_by_id(network, its[k].section_id).headway_seconds

\* a single train waits for the headway of the section it left although the
\* next section is empty
C28_Witness ==
    /\ GreedyReturned
    /\ Len(trains) = 1
    /\ Len(result) = 2
    /\ result[1].section_id # result[2].section_id
    /\ section_by_id(network, result[1].section_id).headway_seconds > 0
    /\ result[2].entry = result[1].exit
           + section_by_id(network, result[1].section_id).headway_seconds
    /\ result[2].entry > trains[1].planned_departure

\* every train runs over the one section sid, which has no block window and
\* D + H > 0, with one priority and one planned departure
EqualTrainsOn(sid) ==
    /\ HasSection(network, sid)
    /\ section_by_id(network, sid).block_windows = <<>>
    /\ section_by_id(network, sid).traverse_seconds
           + section_by_id(network, sid).headway_seconds > 0
    /\ \A i \in 1..Len(trains) :
           /\ trains[i].route_sections = <<sid>>
           /\ trains[i].priority = trains[1].priority
           /\ trains[i].planned_departure = trains[1].planned_departure

\* C29: n trains of equal priority and equal planned_departure tau on one
\* section without block windows and with D + H > 0 are placed in input
\* order, the i-th (0-based) entering at tau + i * (D + H); with H = 0 the
\* second entry is the first exit.
C29_BackToBack ==
    \A sid \in NetworkIds :
        (GreedyReturned /\ EqualTrainsOn(sid)) =>
            LET sec == section_by_id(network, sid)
                D == sec.traverse_seconds
                H == sec.headway_seconds
            IN  /\ Len(result) = Len(trains)
                /\ \A i \in 1..Len(trains) :
                       /\ result[i].train_id = trains[i].id
                       /\ result[i].entry =
                              trains[1].planned_departure + (i - 1) * (D + H)
                       /\ result[i].exit = result[i].entry + D
                /\ (H = 0 /\ Len(trains) >= 2) =>
                       result[2].entry = result[1].exit

\* three equal trains abut on a section without headway
C29_Witness ==
    /\ GreedyReturned
    /\ EqualTrainsOn("S1")
    /\ Len(trains) = 3
    /\ section_by_id(network, "S1").headway_seconds = 0
    /\ result[2].entry = result[1].exit
    /\ result[3].entry = result[2].exit
    /\ result[3].entry > result[1].entry

\* all trains have the route of the first one
SharedRoute(ts) ==
    \A i \in 1..Len(ts) : ts[i].route_sections = ts[1].route_sections

\* max exit - min entry
Makespan(items) == MaxExit(items, 1) - MinEntry(items, 1)

\* C21: for trains that all share one route, the makespan of the schedule
\* that schedule_trains returns with solver='milp' is at most the makespan of
\* the greedy schedule of the same input.
C21_MilpMakespan ==
    (Returned /\ solver = "milp" /\ SharedRoute(trains) /\ result # <<>>) =>
        /\ greedy_schedule(trains, network).raised = "none"
        /\ Makespan(result) <= Makespan(greedy_schedule(trains, network).items)

\* the call of tests/test_milp_multisec.py: three trains over two sections
C21_Witness ==
    /\ Returned
    /\ solver = "milp"
    /\ MultisecTest
    /\ SharedRoute(trains)
    /\ Len(result) = 6
    /\ Makespan(result) > 0

\* the schedule invariants of one section for the start times st: departure
\* floor, headway between any two trains, block windows avoided, and at most
\* platform_capacity dwell intervals [st - dwell, st) over any time point
SatisfiesInvariants(ts, sec, st) ==
    LET D == sec.traverse_seconds
        H == sec.headway_seconds
        n == Len(ts)
        dw(i) == DictGet(ts[i].dwell_before, sec.id)
        dwelling(tau) == {i \in 1..n : dw(i) > 0 /\ st[i] - dw(i) <= tau
                                        /\ tau < st[i]}
    IN  /\ \A i \in 1..n : st[i] >= ts[i].planned_departure
        /\ \A i \in 1..n : \A j \in 1..n :
               i # j => (st[j] >= st[i] + D + H \/ st[i] >= st[j] + D + H)
        /\ \A i \in 1..n : \A w \in 1..Len(sec.block_windows) :
               \/ st[i] + D <= sec.block_windows[w][1]
               \/ st[i] >= sec.block_windows[w][2]
        /\ sec.platform_capacity >= 1 =>
               \A i \in 1..n :
                   Cardinality(dwelling(st[i] - 1)) <= sec.platform_capacity

\* the trains one after another behind the last block window, each a
\* traverse, a headway and the longest dwell after the one before
StaggeredStarts(ts, sec) ==
    LET n == Len(ts)
        ends == {ts[i].planned_departure : i \in 1..n}
                    \cup {sec.block_windows[w][2] :
                             w \in 1..Len(sec.block_windows)}
        base == CHOOSE b \in ends : \A e \in ends : b >= e
        step == sec.traverse_seconds + sec.headway_seconds
                    + SumOver(LAMBDA i : DictGet(ts[i].dwell_before, sec.id),
                              1, n)
    IN  [i \in 1..n |-> base + (i - 1) * step]

\* C24: whenever a schedule satisfying the schedule invariants exists, the
\* constraint system built with the big-M of the code is satisfiable,
\* whatever the magnitude of the block-window bounds and dwells.
C24_BigMSatisfiable ==
    (/\ pc = "done"
     /\ solver = "milp_single"
     /\ trains # <<>>
     /\ SatisfiesInvariants(trains, network[1],
                            StaggeredStarts(trains, network[1]))) =>
        /\ status = "Optimal"
        /\ \E st \in [1..Len(trains) -> StartValues(trains, network[1])] :
               Feasible(trains, network[1], st)

\* the trains with a first route section
Routed == {i \in 1..Len(trains) : trains[i].route_sections # <<>>}

\* the ETA of the claim: planned_departure + 60 * predicted delay minutes
ClaimedEta(i) ==
    trains[i].planned_departure
        + 60 * DictGet(args.predicted_delays_min, trains[i].id)

\* some other train with the same first section is less than 120 s away
HasCloseNeighbour(i) ==
    \E j \in Routed :
        /\ j # i
        /\ trains[j].route_sections[1] = trains[i].route_sections[1]
        /\ Abs(ClaimedEta(i) - ClaimedEta(j)) < 120

NamedInDetected(tid) ==
    \E r \in 1..Len(detected) :
        \E k \in 1..Len(detected[r].trains) : detected[r].trains[k] = tid

\* C30: a train is named in a record of detect_future_conflicts if and only
\* if another train with the same first route section has an ETA less than
\* 120 seconds from its own; every record names two trains of its section
\* with gap_seconds < 120.
C30_DetectComplete ==
    (pc = "done" /\ solver = "detect") =>
        /\ \A i \in 1..Len(trains) :
               NamedInDetected(trains[i].id) <=>
                   (i \in Routed /\ HasCloseNeighbour(i))
        /\ \A r \in 1..Len(detected) :
               /\ Len(detected[r].trains) = 2
               /\ detected[r].gap_seconds < 120
               /\ \E i \in Routed : \E j \in Routed :
                      /\ i # j
                      /\ detected[r].trains = <<trains[i].id, trains[j].id>>
                      /\ trains[i].route_sections[1] = detected[r].section_id
                      /\ trains[j].route_sections[1] = detected[r].section_id
                      /\ detected[r].gap_seconds
                             = ClaimedEta(j) - ClaimedEta(i)
                      /\ detected[r].gap_seconds >= 0

\* three trains to one section, the first and the last of the input close
\* to each other and not adjacent in the input: the train between them in
\* the input arrives later and is named in no record
C30_Witness ==
    /\ pc = "done"
    /\ solver = "detect"
    /\ Len(trains) = 3
    /\ \A i \in 1..3 : i \in Routed /\ trains[i].route_sections[1] = "S1"
    /\ Abs(ClaimedEta(1) - ClaimedEta(3)) < 120
    /\ ClaimedEta(2) - ClaimedEta(1) >= 120
    /\ ClaimedEta(2) - ClaimedEta(3) >= 120
    /\ NamedInDetected(trains[1].id)
    /\ NamedInDetected(trains[3].id)
    /\ ~NamedInDetected(trains[2].id)

\* ------------------------------------- direct calls of schedule_trains_milp
\* the call returned the values of a solved model
RouteSolved == pc = "done" /\ solver \in Formulations /\ status = "Optimal"

\* C25: on every schedule produced by schedule_trains_milp, whichever
\* formulation the dispatch selected, entries on two sections related by
\* conflicts_with or by a shared conflict group are separated by the
\* declared clearance.
C25_ClearanceInEveryFormulation ==
    RouteSolved =>
        \A sid \in NetworkIds : \A other \in NetworkIds :
            LET sec == section_by_id(network, sid)
                osec == section_by_id(network, other)
            IN  /\ other \in DOMAIN sec.conflicts_with =>
                       Separated(result, sid, other, sec.conflicts_with[other])
                /\ sid # other =>
                       \A g \in DOMAIN sec.conflict_groups
                                   \cap DOMAIN osec.conflict_groups :
                           Separated(result, sid, other, sec.conflict_groups[g])

\* the sections that carry an item of the result
Carrying == {result[i].section_id : i \in 1..Len(result)}

\* the groups that two sections both declare
SharedGroups(sec, osec) ==
    DOMAIN sec.conflict_groups \cap DOMAIN osec.conflict_groups

\* the larger of the two declared clearances, over the shared groups
MaxSharedClearance(sec, osec) ==
    Greatest({sec.conflict_groups[g] : g \in SharedGroups(sec, osec)}
                 \cup {osec.conflict_groups[g] : g \in SharedGroups(sec, osec)})

\* C26: in the heterogeneous-route formulation, every pair of entries on
\* two distinct leg-carrying sections that share a conflict group is
\* separated by the maximum, over the shared groups, of the clearances the
\* two sections declare, also when the two declare different clearances.
C26_GroupMaxClearance ==
    (RouteSolved /\ solver = "hetero_routes") =>
        \A sid \in Carrying : \A other \in Carrying :
            LET sec == section_by_id(network, sid)
                osec == section_by_id(network, other)
            IN  (sid # other /\ SharedGroups(sec, osec) # {}) =>
                    Separated(result, sid, other, MaxSharedClearance(sec, osec))

\* a solved heterogeneous model whose two sections declare different
\* clearances for the shared group, the smaller one on the first section
C26_Witness ==
    /\ RouteSolved
    /\ solver = "hetero_routes"
    /\ Carrying = {"S1", "S2"}
    /\ LET sec == section_by_id(network, "S1")
           osec == section_by_id(network, "S2")
       IN  /\ SharedGroups(sec, osec) = {"G"}
           /\ sec.conflict_groups["G"] < osec.conflict_groups["G"]
           /\ \E i \in 1..Len(result) : \E j \in 1..Len(result) :
                  /\ result[i].section_id = "S1"
                  /\ result[j].section_id = "S2"
                  /\ Abs(result[i].entry - result[j].entry)
                         = osec.conflict_groups["G"]

\* the items of train tid on section sid
ItemsOf(items, tid, sid) ==
    {i \in 1..Len(items) :
        items[i].train_id = tid /\ items[i].section_id = sid}

\* C27: when all trains share one route of length >= 2, the call builds the
\* homogeneous multi-section model and returns one item per train per
\* section without raising, wherever platform_capacity is set on the route.
C27_MultiSectionBuilds ==
    (/\ pc = "done"
     /\ solver \in Formulations
     /\ trains # <<>>
     /\ SharedRoute(trains)
     /\ Len(trains[1].route_sections) >= 2) =>
        /\ solver = "multi_section"
        /\ raised = "none"
        /\ \A i \in 1..Len(trains) :
               \A k \in 1..Len(trains[i].route_sections) :
                   Cardinality(ItemsOf(result, trains[i].id,
                                       trains[i].route_sections[k])) = 1

====
